---------------------------- MODULE Spec2Model ----------------------------
(***************************************************************************)
(* A model of md2img: the style stack of the Renderer, the node tree and   *)
(* its concatenation operators, the line-breaking LayoutEngine, the        *)
(* measure / render walk and the MarkdownProcessor.                        *)
(*                                                                         *)
(* Each part of the program has its own specification over the same        *)
(* variables; a specification leaves the variables of the other parts at   *)
(* their idle values.                                                      *)
(***************************************************************************)
EXTENDS Integers, Sequences, FiniteSets, TLC

VARIABLES
    \* Renderer (core/renderer.py)
    style_stack,   \* Renderer.style_stack: sequence of style records
    scopes,        \* the open `with push_style(..)` bodies, innermost last
    exc,           \* TRUE while an error raised in a body is propagating
    ended,         \* history: the push_style scope that ended last
    \* the tree handed to the renderer and the calls made on it
    root,          \* the node measured and rendered
    avail,         \* the available width of the calls
    lay,           \* the result of the last stand-alone layout_paragraph call
    measured,      \* the last two measure_height calls, the latest first
    rendered,      \* the result of the last render call
    \* the node objects built through the Python API (core/nodes)
    nodes,         \* the heap: node id |-> its fields; ids are 1..Len(nodes)
    mds,           \* the MD2Img objects: each is the id of its root
    last_op,       \* history: the last operation on the heap
    \* MarkdownProcessor.parse (processor.py)
    parser         \* the call stack of a running parse and its outcome

styleVars == <<style_stack, scopes, exc, ended>>
walkVars == <<root, avail, lay, measured, rendered>>
treeVars == <<nodes, mds, last_op>>
vars ==
    <<style_stack, scopes, exc, ended, root, avail, lay, measured, rendered,
      nodes, mds, last_op, parser>>

\* no node object and no MD2Img exists; no parse is running
NoOp == [op |-> "none", target |-> 0, flag |-> FALSE]
IdleTree == nodes = <<>> /\ mds = <<>> /\ last_op = NoOp
NoDocument == [type |-> "None", text |-> <<>>, children |-> <<>>]
NoParse ==
    [status |-> "idle", text |-> <<>>, frames |-> <<>>, result |-> NoDocument,
     iter |-> [from |-> 0, to |-> 1], rec |-> [outer |-> 1, inner |-> 0]]
IdleParser == parser = NoParse

Last(s) == s[Len(s)]
Front(s) == SubSeq(s, 1, Len(s) - 1)

\* F(v), with v computed before F is entered: one statement after the other
Then(v, F(_)) == CHOOSE out \in {F(r) : r \in {v}} : TRUE

(***************************************************************************)
(* Bounds of the model.                                                    *)
(***************************************************************************)
MaxDepth == 3      \* nesting depth of push_style scopes
MaxTextLen == 5    \* length of the Latin text of a TextSpan
MaxCJKLen == 3     \* length of a text holding CJK characters
MaxWidth == 5      \* available width of a paragraph, in glyph units
MaxBlocks == 2     \* blocks of a measured document
MaxNodes == 5      \* node objects on the heap
MaxChildren == 3   \* children of one node
MaxItems == 2      \* items handed to one List(..) call
MaxLinks == 4      \* parent-child links on the heap
MaxParseLen == 3   \* length of a text drawn over the whole alphabet
MaxLines == 2      \* lines of a document of sample lines
MaxParsed == 5     \* children of a parsed root: the main loop runs while fewer

(***************************************************************************)
(* config.py: BaseConfig                                                   *)
(***************************************************************************)
GlobalStyle ==
    [background_color |-> "#FFFFFF", color |-> "#000000",
     font_family |-> "regular", font_size |-> 14,
     line_height |-> "1.5", padding |-> <<20, 20, 20, 20>>]

\* BaseConfig.get_style("global"): a deep copy of the global record
config_get_style_global == GlobalStyle

(***************************************************************************)
(* The override records the nodes contribute (nodes/inline.py, block.py)   *)
(***************************************************************************)
Bold_get_style_overrides == [font_weight |-> "bold"]
Italic_get_style_overrides == [font_style |-> "italic"]
Code_get_style_overrides ==
    [font_family |-> "monospace", background_color |-> "#f0f0f0",
     padding |-> <<2, 4, 2, 4>>, border_radius |-> 3]
Strikethrough_get_style_overrides == [text_decoration |-> "line-through"]
Blockquote_style_override == [color |-> "#555555"]

Overrides ==
    {Bold_get_style_overrides, Italic_get_style_overrides,
     Code_get_style_overrides, Strikethrough_get_style_overrides,
     Blockquote_style_override}

(***************************************************************************)
(* core/renderer.py: the style stack                                       *)
(***************************************************************************)
\* a merge in which the inherited value wins on a key collision
DictUpdate_KeepCurrent(cur, ov) ==
    [k \in (DOMAIN cur) \cup (DOMAIN ov) |->
        IF k \in DOMAIN cur THEN cur[k] ELSE ov[k]]

\* dict.copy() followed by dict.update(override)
DictUpdate(cur, ov) ==
    [k \in (DOMAIN cur) \cup (DOMAIN ov) |->
        IF k \in DOMAIN ov THEN ov[k] ELSE cur[k]]

\* Renderer.get_current_style, as a function of the stack
CurrentStyleOf(stack) ==
    IF stack = <<>> THEN config_get_style_global ELSE Last(stack)

get_current_style == CurrentStyleOf(style_stack)

\* push_style up to its yield: the merged record is appended
PushOnEnter(stack, ov) ==
    Append(stack, DictUpdate(CurrentStyleOf(stack), ov))

PopOnExit_NoFinally(stack, raised) ==
    IF raised THEN stack ELSE Front(stack)

\* push_style after its yield: `finally: self.style_stack.pop()` runs on the
\* normal exit and on the error exit alike
PopOnExit(stack, raised) == Front(stack)

\* Renderer.__init__: push_style(...) is called outside a `with`, so the
\* generator is created and never started: nothing is pushed.
Renderer_init_stack == <<>>

(***************************************************************************)
(* Nodes as values (core/nodes): a text is a sequence of characters; the   *)
(* characters "zh" and "wen" stand for two CJK ideographs.                 *)
(***************************************************************************)
TextSpan(t) == [type |-> "TextSpan", text |-> t, children |-> <<>>]
LineBreak == [type |-> "LineBreak", text |-> <<>>, children |-> <<>>]
StyledText(cls, content) == [type |-> cls, text |-> <<>>, children |-> content]
Bold(content) == StyledText("Bold", <<content>>)
Italic(content) == StyledText("Italic", <<content>>)
Code(content) == StyledText("Code", <<content>>)
Strikethrough(content) == StyledText("Strikethrough", <<content>>)

StyledTypes == {"Bold", "Italic", "Code", "Strikethrough"}
InlineTypes == {"TextSpan", "LineBreak"} \cup StyledTypes

get_style_overrides(node) ==
    CASE node.type = "Bold" -> Bold_get_style_overrides
      [] node.type = "Italic" -> Italic_get_style_overrides
      [] node.type = "Code" -> Code_get_style_overrides
      [] node.type = "Strikethrough" -> Strikethrough_get_style_overrides

(***************************************************************************)
(* Font metrics (core/font_manager.py and PIL behind it): a font is the    *)
(* cache key (family, size, weight, style); a glyph's advance and height   *)
(* depend on the character and on the font.                                *)
(***************************************************************************)
CJKChars == {"zh", "wen"}

\* dict.get(key, default)
DictGet(d, k, default) == IF k \in DOMAIN d THEN d[k] ELSE default

\* Renderer.get_current_font: the key handed to FontManager.get_font
CurrentFontOf(stack) ==
    LET style == CurrentStyleOf(stack) IN
    [family |-> DictGet(style, "font_family", "regular"),
     size |-> DictGet(style, "font_size", 14),
     weight |-> DictGet(style, "font_weight", "regular"),
     style |-> DictGet(style, "font_style", "regular")]

GlyphWidth(c, font) ==
    IF font.family = "monospace" THEN 2
    ELSE (IF c \in CJKChars THEN 2 ELSE 1)
         + (IF font.weight = "bold" THEN 1 ELSE 0)

GlyphHeight(c, font) ==
    IF c = " " THEN 0
    ELSE (((IF c \in CJKChars THEN 3 ELSE 2) * font.size) \div 14)
         + (IF font.style = "italic" THEN 1 ELSE 0)

RECURSIVE SumWidths(_, _)
SumWidths(t, font) ==
    IF t = <<>> THEN 0 ELSE GlyphWidth(Head(t), font) + SumWidths(Tail(t), font)

Max(a, b) == IF a >= b THEN a ELSE b

RECURSIVE MaxHeights(_, _)
MaxHeights(t, font) ==
    IF t = <<>> THEN 0
    ELSE Max(GlyphHeight(Head(t), font), MaxHeights(Tail(t), font))

\* font.getlength(text)
font_getlength(t, font) == SumWidths(t, font)
\* font.getbbox(text)[3] - font.getbbox(text)[1]
font_bbox_height(t, font) == MaxHeights(t, font)
\* font.getbbox(text)[2] - font.getbbox(text)[0]
font_bbox_width(t, font) == SumWidths(t, font)

(***************************************************************************)
(* core/nodes/inline.py: measure_width and measure_height.  A measurement  *)
(* returns its value v together with the style stack st it leaves behind.  *)
(***************************************************************************)
TextSpan_measure_width(node, st, max_width) ==
    [v |-> font_getlength(node.text, CurrentFontOf(st)), st |-> st]

TextSpan_measure_height(node, st, available_width) ==
    [v |-> font_bbox_height(node.text, CurrentFontOf(st)), st |-> st]

LineBreak_measure_width(node, st, max_width) == [v |-> 0, st |-> st]

LineBreak_measure_height(node, st, available_width) ==
    [v |-> font_bbox_height(<<"X">>, CurrentFontOf(st)), st |-> st]

RECURSIVE measure_width(_, _, _)
RECURSIVE measure_height(_, _, _)

\* StyledText.measure_width: the loop over the children from child k on
RECURSIVE StyledText_mw_loop(_, _, _, _, _)
StyledText_mw_loop(node, st, max_width, k, total_width) ==
    IF k > Len(node.children) THEN [v |-> total_width, st |-> st]
    ELSE LET pushed == PushOnEnter(st, get_style_overrides(node))
             Rest(cw) == StyledText_mw_loop(node, PopOnExit(cw.st, FALSE),
                             max_width, k + 1, total_width + cw.v)
         IN Rest(measure_width(node.children[k], pushed, max_width - total_width))

StyledText_measure_width(node, st, max_width) ==
    StyledText_mw_loop(node, st, max_width, 1, 0)

\* the loop of StyledText.measure_height with a push_style that is never undone
RECURSIVE StyledText_mh_loop_NoPop(_, _, _, _, _)
StyledText_mh_loop_NoPop(node, st, k, max_height, remaining_width) ==
    IF k > Len(node.children) THEN [v |-> max_height, st |-> st]
    ELSE LET pushed == PushOnEnter(st, get_style_overrides(node))
             Rest(cw, ch) ==
                 StyledText_mh_loop_NoPop(node, ch.st, k + 1,
                     Max(max_height, ch.v), remaining_width - cw.v)
             Height(cw) ==
                 Rest(cw, measure_height(node.children[k], cw.st, remaining_width))
         IN Height(measure_width(node.children[k], pushed, remaining_width))

\* StyledText.measure_height: the loop over the children from child k on
RECURSIVE StyledText_mh_loop(_, _, _, _, _)
StyledText_mh_loop(node, st, k, max_height, remaining_width) ==
    IF k > Len(node.children) THEN [v |-> max_height, st |-> st]
    ELSE LET pushed == PushOnEnter(st, get_style_overrides(node))
             Rest(cw, ch) ==
                 StyledText_mh_loop(node, PopOnExit(ch.st, FALSE), k + 1,
                     Max(max_height, ch.v), remaining_width - cw.v)
             Height(cw) ==
                 Rest(cw, measure_height(node.children[k], cw.st, remaining_width))
         IN Height(measure_width(node.children[k], pushed, remaining_width))

StyledText_measure_height(node, st, available_width) ==
    StyledText_mh_loop(node, st, 1, 0, available_width)

(***************************************************************************)
(* core/layout.py: LayoutEngine                                            *)
(***************************************************************************)
\* cjk_pattern.search(text)
HasCJK(t) == \E k \in 1..Len(t) : t[k] \in CJKChars

\* str.split(" "): SplitFrom(t, k, word) splits t from position k on, with
\* word the characters of the current word read so far
RECURSIVE SplitFrom(_, _, _)
SplitFrom(t, k, word) ==
    IF k > Len(t) THEN <<word>>
    ELSE IF t[k] = " " THEN <<word>> \o SplitFrom(t, k + 1, <<>>)
    ELSE SplitFrom(t, k + 1, Append(word, t[k]))

Split(t) == SplitFrom(t, 1, <<>>)

\* a part of a text: TextSpan(current_part) with its measured width, height
TextPart(t, st, available_width) ==
    [node |-> TextSpan(t),
     width |-> TextSpan_measure_width(TextSpan(t), st, available_width).v,
     height |-> TextSpan_measure_height(TextSpan(t), st, available_width).v]

\* the loop over the words that does not put the spaces back
RECURSIVE layout_text_loop_NoSpace(_, _, _, _, _, _, _)
layout_text_loop_NoSpace(words, i, current_part, current_line_width, parts, available_width, st) ==
    IF i > Len(words)
    THEN IF current_part # <<>>
         THEN Append(parts, TextPart(current_part, st, available_width))
         ELSE parts
    ELSE LET test_text == current_part \o words[i]
             width == TextSpan_measure_width(TextSpan(test_text), st,
                                             available_width).v
         IN IF current_line_width + width > available_width
               /\ current_part # <<>>
            THEN layout_text_loop_NoSpace(words, i + 1, words[i], 0,
                     Append(parts, TextPart(current_part, st, available_width)),
                     available_width, st)
            ELSE layout_text_loop_NoSpace(words, i + 1, test_text,
                     current_line_width, parts, available_width, st)

\* _layout_text, the loop over the words from word i on
RECURSIVE layout_text_loop(_, _, _, _, _, _, _)
layout_text_loop(words, i, current_part, current_line_width, parts, available_width, st) ==
    IF i > Len(words)
    THEN IF current_part # <<>>
         THEN Append(parts, TextPart(current_part, st, available_width))
         ELSE parts
    ELSE LET sp == IF i < Len(words) THEN <<" ">> ELSE <<>>
             test_text == current_part \o words[i] \o sp
             width == TextSpan_measure_width(TextSpan(test_text), st,
                                             available_width).v
         IN IF current_line_width + width > available_width
               /\ current_part # <<>>
            THEN layout_text_loop(words, i + 1, words[i] \o sp, 0,
                     Append(parts, TextPart(current_part, st, available_width)),
                     available_width, st)
            ELSE layout_text_loop(words, i + 1, test_text, current_line_width,
                     parts, available_width, st)

\* _layout_cjk_text, the loop over the characters from character i on
RECURSIVE layout_cjk_loop(_, _, _, _, _, _, _)
layout_cjk_loop(text, i, current_part, current_line_width, parts, available_width, st) ==
    IF i > Len(text)
    THEN IF current_part # <<>>
         THEN Append(parts, TextPart(current_part, st, available_width))
         ELSE parts
    ELSE LET test_text == Append(current_part, text[i])
             width == TextSpan_measure_width(TextSpan(test_text), st,
                                             available_width).v
         IN IF current_line_width + width > available_width
               /\ current_part # <<>>
            THEN layout_cjk_loop(text, i + 1, <<text[i]>>, 0,
                     Append(parts, TextPart(current_part, st, available_width)),
                     available_width, st)
            ELSE layout_cjk_loop(text, i + 1, test_text, current_line_width,
                     parts, available_width, st)

\* a CJK text cut at its spaces only, as a text without CJK characters is
layout_cjk_text_ByWords(text_node, available_width, current_line_width, st) ==
    layout_text_loop(Split(text_node.text), 1, <<>>, current_line_width,
                     <<>>, available_width, st)

layout_cjk_text(text_node, available_width, current_line_width, st) ==
    layout_cjk_loop(text_node.text, 1, <<>>, current_line_width, <<>>,
                    available_width, st)

\* _layout_text: the parts of one TextSpan
layout_text(text_node, available_width, current_line_width, st) ==
    IF text_node.text = <<>> THEN <<>>
    ELSE IF HasCJK(text_node.text)
    THEN layout_cjk_text(text_node, available_width, current_line_width, st)
    ELSE layout_text_loop(Split(text_node.text), 1, <<>>, current_line_width,
                          <<>>, available_width, st)

\* The state of layout_paragraph's loop: result["lines"], result["height"],
\* current_line, current_line_width, current_line_height, and the style stack
NewLayout(st) ==
    [lines |-> <<>>, height |-> 0, current_line |-> <<>>,
     current_line_width |-> 0, current_line_height |-> 0, st |-> st]

\* "finish the current line, start a new one" (layout.py 46-58 and 79-91)
CloseLine(L) ==
    [L EXCEPT !.lines = Append(@, [items |-> L.current_line,
                                   width |-> L.current_line_width,
                                   height |-> L.current_line_height]),
              !.height = @ + L.current_line_height,
              !.current_line = <<>>,
              !.current_line_width = 0,
              !.current_line_height = 0]

\* an item is added and the line's width is left as it was
AddItem_KeepWidth(L, node, width, height) ==
    [L EXCEPT !.current_line = Append(@, [node |-> node, width |-> width]),
              !.current_line_height = Max(@, height)]

\* "add the item to the current line"
AddItem(L, node, width, height) ==
    [L EXCEPT !.current_line = Append(@, [node |-> node, width |-> width]),
              !.current_line_width = @ + width,
              !.current_line_height = Max(@, height)]

\* a placement that never starts a new line for a part
PlacePart_NoWrap(L, part, available_width) ==
    AddItem(L, part.node, part.width, part.height)

\* layout.py 41-64: one text part is placed
PlacePart(L, part, available_width) ==
    LET L1 == IF L.current_line_width + part.width > available_width
                 /\ L.current_line # <<>>
              THEN CloseLine(L) ELSE L
    IN AddItem(L1, part.node, part.width, part.height)

RECURSIVE PlaceParts(_, _, _, _)
PlaceParts(L, parts, k, available_width) ==
    IF k > Len(parts) THEN L
    ELSE PlaceParts(PlacePart(L, parts[k], available_width), parts, k + 1,
                    available_width)

\* a placement that keeps a node on the current line whether it fits or not
PlaceNode_NoWrap(L, node, available_width) ==
    LET Add(L1, w, h) == AddItem([L1 EXCEPT !.st = h.st], node, w.v, h.v)
        Height(w1) ==
            Add(L, w1, measure_height(node, w1.st,
                                      available_width - L.current_line_width))
    IN Height(measure_width(node, L.st, available_width - L.current_line_width))

\* layout.py 66-99: a node that is not a TextSpan is placed whole
PlaceNode(L, node, available_width) ==
    LET Add(L1, w, h) == AddItem([L1 EXCEPT !.st = h.st], node, w.v, h.v)
        Again(w2) == Add(CloseLine(L), w2, measure_height(node, w2.st, available_width))
        Place(w1, h1) ==
            IF L.current_line_width + w1.v > available_width /\ L.current_line # <<>>
            THEN Again(measure_width(node, h1.st, available_width))
            ELSE Add(L, w1, h1)
        Height(w1) ==
            Place(w1, measure_height(node, w1.st,
                                     available_width - L.current_line_width))
    IN Height(measure_width(node, L.st, available_width - L.current_line_width))

\* layout.py 31-99: the loop over paragraph.children from child k on
RECURSIVE layout_children(_, _, _, _)
layout_children(L, children, k, available_width) ==
    IF k > Len(children) THEN L
    ELSE LET node == children[k]
             L1 == IF node.type = "TextSpan"
                   THEN PlaceParts(L, layout_text(node, available_width,
                                                  L.current_line_width, L.st),
                                   1, available_width)
                   ELSE PlaceNode(L, node, available_width)
         IN layout_children(L1, children, k + 1, available_width)

FlushLastLine_NoHeight(L) ==
    IF L.current_line # <<>>
    THEN [CloseLine(L) EXCEPT !.height = L.height] ELSE L

\* layout.py 101-110: the last line is added
FlushLastLine(L) == IF L.current_line # <<>> THEN CloseLine(L) ELSE L

\* LayoutEngine.layout_paragraph
layout_paragraph(paragraph, available_width, st) ==
    IF paragraph.children = <<>>
    THEN [lines |-> <<>>, height |-> 0, width |-> available_width, st |-> st]
    ELSE LET Result(L) == [lines |-> L.lines, height |-> L.height,
                           width |-> available_width, st |-> L.st]
         IN Result(FlushLastLine(layout_children(NewLayout(st),
                       paragraph.children, 1, available_width)))

(***************************************************************************)
(* core/nodes/block.py: the block nodes and their measure_height           *)
(***************************************************************************)
DocumentNode(children) == [type |-> "DocumentNode", text |-> <<>>, children |-> children]
Heading(text, level) ==
    [type |-> "Heading", text |-> text, children |-> <<>>,
     level |-> Max(1, IF level <= 6 THEN level ELSE 6)]
Paragraph(children) == [type |-> "Paragraph", text |-> <<>>, children |-> children]
HorizontalRule == [type |-> "HorizontalRule", text |-> <<>>, children |-> <<>>]
ListItemNode(children, index) ==
    [type |-> "ListItem", text |-> <<>>, children |-> children, index |-> index]
ListNode(children, ordered) ==
    [type |-> "List", text |-> <<>>, children |-> children, ordered |-> ordered]
Blockquote(children) == [type |-> "Blockquote", text |-> <<>>, children |-> children]

BlockTypes ==
    {"DocumentNode", "Heading", "Paragraph", "HorizontalRule", "ListItem",
     "List", "Blockquote"}

IsBlockNode(node) == node.type \in BlockTypes

margin_top(node) ==
    CASE node.type = "Heading" -> 20 - (node.level * 2)
      [] node.type = "Paragraph" -> 8
      [] node.type = "HorizontalRule" -> 15
      [] node.type = "ListItem" -> 4
      [] node.type = "List" -> 10
      [] node.type = "Blockquote" -> 15
      [] OTHER -> 0

margin_bottom(node) ==
    CASE node.type = "Heading" -> 10
      [] node.type = "Paragraph" -> 8
      [] node.type = "HorizontalRule" -> 15
      [] node.type = "ListItem" -> 4
      [] node.type = "List" -> 10
      [] node.type = "Blockquote" -> 15
      [] OTHER -> 0

ListItem_indent == 24
ListItem_marker_width == 16
Blockquote_padding_left == 20
Blockquote_border_width == 4
HorizontalRule_height == 1

\* Renderer.get_font_for_heading: the style "h<level>" of the configuration
\* with the global keys filling the gaps
font_for_heading(level) ==
    [family |-> "regular",
     size |-> CASE level = 1 -> 32 [] level = 2 -> 28 [] level = 3 -> 24
                [] level = 4 -> 20 [] level = 5 -> 18 [] OTHER -> 16,
     weight |-> "bold", style |-> "regular"]

Heading_measure_height(node, st, available_width) ==
    [v |-> font_bbox_height(node.text, font_for_heading(node.level)), st |-> st]

Paragraph_measure_height(node, st, available_width) ==
    LET Height(layout_info) == [v |-> layout_info.height, st |-> layout_info.st]
    IN Height(layout_paragraph(node, available_width, st))

HorizontalRule_measure_height(node, st, available_width) ==
    [v |-> HorizontalRule_height, st |-> st]

\* the loop `for child in self.children` of DocumentNode.measure_height and
\* of Blockquote.measure_height: block children count with their margins
RECURSIVE Container_mh_loop(_, _, _, _, _)
Container_mh_loop(node, st, content_width, k, total_height) ==
    IF k > Len(node.children) THEN [v |-> total_height, st |-> st]
    ELSE LET child == node.children[k]
             Rest(ch) ==
                 Container_mh_loop(node, ch.st, content_width, k + 1,
                     total_height + IF IsBlockNode(child)
                                    THEN margin_top(child) + ch.v + margin_bottom(child)
                                    ELSE ch.v)
         IN Rest(measure_height(child, st, content_width))

DocumentNode_measure_height(node, st, available_width) ==
    Container_mh_loop(node, st, available_width, 1, 0)

Blockquote_measure_height(node, st, available_width) ==
    Container_mh_loop(node, st,
        available_width - Blockquote_padding_left - Blockquote_border_width, 1, 0)

\* ListItem.measure_height: the children's heights, without margins
RECURSIVE ListItem_mh_loop(_, _, _, _, _)
ListItem_mh_loop(node, st, content_width, k, total_height) ==
    IF k > Len(node.children) THEN [v |-> total_height, st |-> st]
    ELSE LET Rest(ch) == ListItem_mh_loop(node, ch.st, content_width, k + 1,
                                          total_height + ch.v)
         IN Rest(measure_height(node.children[k], st, content_width))

ListItem_measure_height(node, st, available_width) ==
    ListItem_mh_loop(node, st,
        available_width - ListItem_indent - ListItem_marker_width, 1, 0)

\* List.measure_height: every child with its margins
RECURSIVE List_mh_loop(_, _, _, _, _)
List_mh_loop(node, st, available_width, k, total_height) ==
    IF k > Len(node.children) THEN [v |-> total_height, st |-> st]
    ELSE LET child == node.children[k]
             Rest(ch) == List_mh_loop(node, ch.st, available_width, k + 1,
                 total_height + ch.v + margin_top(child) + margin_bottom(child))
         IN Rest(measure_height(child, st, available_width))

List_measure_height(node, st, available_width) ==
    List_mh_loop(node, st, available_width, 1, 0)

\* node.measure_width(renderer, max_width), by the node's class
measure_width(node, st, max_width) ==
    CASE node.type = "TextSpan" -> TextSpan_measure_width(node, st, max_width)
      [] node.type = "LineBreak" -> LineBreak_measure_width(node, st, max_width)
      [] node.type \in StyledTypes -> StyledText_measure_width(node, st, max_width)
      [] OTHER -> [v |-> max_width, st |-> st]   \* BlockNode.measure_width

\* node.measure_height(renderer, available_width), by the node's class
measure_height(node, st, available_width) ==
    CASE node.type = "TextSpan" -> TextSpan_measure_height(node, st, available_width)
      [] node.type = "LineBreak" -> LineBreak_measure_height(node, st, available_width)
      [] node.type \in StyledTypes -> StyledText_measure_height(node, st, available_width)
      [] node.type = "DocumentNode" -> DocumentNode_measure_height(node, st, available_width)
      [] node.type = "Heading" -> Heading_measure_height(node, st, available_width)
      [] node.type = "Paragraph" -> Paragraph_measure_height(node, st, available_width)
      [] node.type = "HorizontalRule" -> HorizontalRule_measure_height(node, st, available_width)
      [] node.type = "ListItem" -> ListItem_measure_height(node, st, available_width)
      [] node.type = "List" -> List_measure_height(node, st, available_width)
      [] node.type = "Blockquote" -> Blockquote_measure_height(node, st, available_width)

(***************************************************************************)
(* render(renderer, x, y, available_width): a rendering returns the used   *)
(* width w and height h, the style stack st it leaves behind and the draw  *)
(* calls it made on renderer.draw, in order.                               *)
(***************************************************************************)
RECURSIVE render(_, _, _, _, _)

TextSpan_render(node, st, x, y, available_width) ==
    LET font == CurrentFontOf(st)
        color == DictGet(CurrentStyleOf(st), "color", "#000000")
    IN [w |-> font_bbox_width(node.text, font),
        h |-> font_bbox_height(node.text, font),
        st |-> st,
        draws |-> <<[op |-> "text", x |-> x, y |-> y, text |-> node.text,
                     font |-> font, fill |-> color]>>]

LineBreak_render(node, st, x, y, available_width) ==
    LET Result(height) == [w |-> 0, h |-> height.v, st |-> height.st, draws |-> <<>>]
    IN Result(LineBreak_measure_height(node, st, available_width))

\* the loop of StyledText.render with a push_style that is never undone
RECURSIVE StyledText_render_loop_NoPop(_, _, _, _, _, _, _, _, _)
StyledText_render_loop_NoPop(node, st, x, y, available_width, k, current_x, max_height, draws) ==
    IF k > Len(node.children)
    THEN [w |-> current_x - x, h |-> max_height, st |-> st, draws |-> draws]
    ELSE LET pushed == PushOnEnter(st, get_style_overrides(node))
             Rest(r) ==
                 StyledText_render_loop_NoPop(node, r.st, x, y,
                     available_width, k + 1, current_x + r.w,
                     Max(max_height, r.h), draws \o r.draws)
         IN Rest(render(node.children[k], pushed, current_x, y,
                        available_width - (current_x - x)))

\* StyledText.render: the loop over the children from child k on
RECURSIVE StyledText_render_loop(_, _, _, _, _, _, _, _, _)
StyledText_render_loop(node, st, x, y, available_width, k, current_x, max_height, draws) ==
    IF k > Len(node.children)
    THEN [w |-> current_x - x, h |-> max_height, st |-> st, draws |-> draws]
    ELSE LET pushed == PushOnEnter(st, get_style_overrides(node))
             Rest(r) ==
                 StyledText_render_loop(node, PopOnExit(r.st, FALSE), x, y,
                     available_width, k + 1, current_x + r.w,
                     Max(max_height, r.h), draws \o r.draws)
         IN Rest(render(node.children[k], pushed, current_x, y,
                        available_width - (current_x - x)))

StyledText_render(node, st, x, y, available_width) ==
    StyledText_render_loop(node, st, x, y, available_width, 1, x, 0, <<>>)

\* Code.render, the loop over the children inside its one push_style scope
RECURSIVE Code_render_loop(_, _, _, _, _, _, _)
Code_render_loop(node, st, current_x, current_y, inner_width, k, draws) ==
    IF k > Len(node.children) THEN [st |-> st, draws |-> draws]
    ELSE LET Rest(r) == Code_render_loop(node, r.st, current_x + r.w, current_y,
                                         inner_width, k + 1, draws \o r.draws)
         IN Rest(render(node.children[k], st, current_x, current_y, inner_width))

Code_render(node, st, x, y, available_width) ==
    LET style_overrides == get_style_overrides(node)
        padding == style_overrides.padding
        Result(bg_width, bg_height, body) ==
            [w |-> bg_width, h |-> bg_height, st |-> PopOnExit(body.st, FALSE),
             draws |-> <<[op |-> "rounded_rectangle", x |-> x, y |-> y,
                          w |-> bg_width, h |-> bg_height,
                          fill |-> style_overrides.background_color]>>
                       \o body.draws]
        Body(text_width, text_height) ==
            Result(text_width.v + padding[2] + padding[4],
                   text_height.v + padding[1] + padding[3],
                   Code_render_loop(node,
                       PushOnEnter(text_height.st, style_overrides),
                       x + padding[4], y + padding[1],
                       available_width - padding[2] - padding[4], 1, <<>>))
        Height(text_width) ==
            Body(text_width,
                 StyledText_measure_height(node, text_width.st, available_width))
    IN Height(StyledText_measure_width(node, st, available_width))

\* Strikethrough.render: the loop over the children from child k on
RECURSIVE Strikethrough_render_loop(_, _, _, _, _, _, _, _, _)
Strikethrough_render_loop(node, st, x, y, available_width, k, total_width, max_height, draws) ==
    IF k > Len(node.children)
    THEN [w |-> total_width, h |-> max_height, st |-> st, draws |-> draws]
    ELSE LET pushed == PushOnEnter(st, get_style_overrides(node))
             Rest(r) ==
                 Strikethrough_render_loop(node, PopOnExit(r.st, FALSE), x, y,
                     available_width, k + 1, total_width + r.w,
                     Max(max_height, r.h), draws \o r.draws)
         IN Rest(render(node.children[k], pushed, x + total_width, y,
                        available_width - total_width))

Strikethrough_render(node, st, x, y, available_width) ==
    LET Line(r) ==
            IF r.w > 0 /\ r.h > 0
            THEN [r EXCEPT !.draws = Append(@,
                     [op |-> "line", x |-> x, y |-> y + (r.h \div 2), w |-> r.w,
                      fill |-> DictGet(CurrentStyleOf(r.st), "color", "#000000")])]
            ELSE r
    IN Line(Strikethrough_render_loop(node, st, x, y, available_width, 1, 0,
                                      0, <<>>))

\* Paragraph.render: the items of one line from item k on
RECURSIVE Paragraph_render_items(_, _, _, _, _, _)
Paragraph_render_items(items, k, st, current_x, current_y, draws) ==
    IF k > Len(items) THEN [st |-> st, draws |-> draws, x |-> current_x]
    ELSE LET Rest(r) == Paragraph_render_items(items, k + 1, r.st, current_x + r.w,
                                               current_y, draws \o r.draws)
         IN Rest(render(items[k].node, st, current_x, current_y, items[k].width))

\* Paragraph.render: the lines from line k on; painted records, per line,
\* where it was painted and how far the cursor moved
RECURSIVE Paragraph_render_lines(_, _, _, _, _, _, _, _)
Paragraph_render_lines(lines, k, st, x, current_y, max_width, draws, painted) ==
    IF k > Len(lines)
    THEN [st |-> st, y |-> current_y, max_width |-> max_width,
          draws |-> draws, painted |-> painted]
    ELSE LET line == lines[k]
             Rest(r) ==
                 Paragraph_render_lines(lines, k + 1, r.st, x,
                     current_y + line.height, Max(max_width, line.width),
                     draws \o r.draws,
                     Append(painted, [y |-> current_y, height |-> line.height,
                                      n |-> Len(line.items), end_x |-> r.x]))
         IN Rest(Paragraph_render_items(line.items, 1, st, x, current_y, <<>>))

Paragraph_render(node, st, x, y, available_width) ==
    LET Result(r) == [w |-> r.max_width, h |-> r.y - y, st |-> r.st,
                      draws |-> r.draws, painted |-> r.painted]
        Lines(layout_info) ==
            Result(Paragraph_render_lines(layout_info.lines, 1, layout_info.st,
                                          x, y, 0, <<>>, <<>>))
    IN Lines(layout_paragraph(node, available_width, st))

\* config.get_style("h<level>")["color"]
heading_color(level) ==
    CASE level = 1 -> "#000000" [] level = 2 -> "#222222" [] level = 3 -> "#333333"
      [] level = 4 -> "#444444" [] level = 5 -> "#555555" [] OTHER -> "#666666"

Heading_render(node, st, x, y, available_width) ==
    LET font == font_for_heading(node.level)
    IN [w |-> font_bbox_width(node.text, font),
        h |-> font_bbox_height(node.text, font),
        st |-> st,
        draws |-> <<[op |-> "text", x |-> x, y |-> y, text |-> node.text,
                     font |-> font, fill |-> heading_color(node.level)]>>]

HorizontalRule_render(node, st, x, y, available_width) ==
    [w |-> available_width, h |-> HorizontalRule_height, st |-> st,
     draws |-> <<[op |-> "line", x |-> x, y |-> y, w |-> available_width,
                  fill |-> "#cccccc"]>>]

\* ListItem.render, the loop over the children from child k on
RECURSIVE ListItem_render_loop(_, _, _, _, _, _, _)
ListItem_render_loop(node, st, content_x, current_y, content_width, k, draws) ==
    IF k > Len(node.children) THEN [st |-> st, y |-> current_y, draws |-> draws]
    ELSE LET Rest(r) ==
                 ListItem_render_loop(node, r.st, content_x, current_y + r.h,
                                      content_width, k + 1, draws \o r.draws)
         IN Then(render(node.children[k], st, content_x, current_y, content_width),
                 Rest)

\* ListItem.render: the marker is drawn, then the children one below the other
ListItem_render(node, st, x, y, available_width) ==
    LET marker_x == x + ListItem_indent
        Result(r) == [w |-> available_width, h |-> r.y - y, st |-> r.st,
                      draws |-> r.draws]
    IN Result(ListItem_render_loop(node, st, marker_x + ListItem_marker_width, y,
                  available_width - ListItem_indent - ListItem_marker_width, 1,
                  <<[op |-> "text", x |-> marker_x, y |-> y, marker |-> node.index,
                     font |-> CurrentFontOf(st),
                     fill |-> DictGet(CurrentStyleOf(st), "color", "#000000")]>>))

\* List.render, the loop over the items from item k on
RECURSIVE List_render_loop(_, _, _, _, _, _, _)
List_render_loop(node, st, x, current_y, available_width, k, draws) ==
    IF k > Len(node.children) THEN [st |-> st, y |-> current_y, draws |-> draws]
    ELSE LET child == node.children[k]
             Rest(r) ==
                 List_render_loop(node, r.st, x,
                     current_y + margin_top(child) + r.h + margin_bottom(child),
                     available_width, k + 1, draws \o r.draws)
         IN Then(render(child, st, x, current_y + margin_top(child), available_width),
                 Rest)

List_render(node, st, x, y, available_width) ==
    LET Result(r) == [w |-> available_width, h |-> r.y - y, st |-> r.st,
                      draws |-> r.draws]
    IN Result(List_render_loop(node, st, x, y, available_width, 1, <<>>))

\* the loop with a cursor that forgets the bottom margin of a block child
RECURSIVE Container_render_loop_NoMargin(_, _, _, _, _, _, _, _)
Container_render_loop_NoMargin(node, st, x, current_y, available_width, k, draws, placed) ==
    IF k > Len(node.children)
    THEN [st |-> st, y |-> current_y, draws |-> draws, placed |-> placed]
    ELSE LET child == node.children[k]
             child_y == IF IsBlockNode(child) THEN current_y + margin_top(child)
                        ELSE current_y
             Rest(r) ==
                 Container_render_loop_NoMargin(node, r.st, x, child_y + r.h,
                     available_width, k + 1, draws \o r.draws,
                     Append(placed, [y |-> child_y, used |-> r.h]))
         IN Then(render(child, st, x, child_y, available_width), Rest)

\* the loop `for child in self.children` of DocumentNode.render and of
\* Blockquote.render: the cursor passes the margins of a block child; placed
\* records, per child, the y it was rendered at and the height it used
RECURSIVE Container_render_loop(_, _, _, _, _, _, _, _)
Container_render_loop(node, st, x, current_y, available_width, k, draws, placed) ==
    IF k > Len(node.children)
    THEN [st |-> st, y |-> current_y, draws |-> draws, placed |-> placed]
    ELSE LET child == node.children[k]
             child_y == IF IsBlockNode(child) THEN current_y + margin_top(child)
                        ELSE current_y
             Rest(r) ==
                 Container_render_loop(node, r.st, x,
                     child_y + r.h
                         + IF IsBlockNode(child) THEN margin_bottom(child) ELSE 0,
                     available_width, k + 1, draws \o r.draws,
                     Append(placed, [y |-> child_y, used |-> r.h]))
         IN Then(render(child, st, x, child_y, available_width), Rest)

DocumentNode_render(node, st, x, y, available_width) ==
    LET Result(r) == [w |-> available_width, h |-> r.y - y, st |-> r.st,
                      draws |-> r.draws, placed |-> r.placed]
    IN Result(Container_render_loop(node, st, x, y, available_width, 1, <<>>, <<>>))

\* Blockquote.render: the background and the border are sized by
\* measure_height, then the children are rendered inside one push_style scope
Blockquote_render(node, st, x, y, available_width) ==
    LET Result(height, r) ==
            [w |-> available_width, h |-> r.y - y, st |-> PopOnExit(r.st, FALSE),
             draws |-> <<[op |-> "rectangle", x |-> x, y |-> y,
                          w |-> available_width, h |-> height.v,
                          fill |-> "#f9f9f9"],
                         [op |-> "rectangle", x |-> x, y |-> y,
                          w |-> Blockquote_border_width, h |-> height.v,
                          fill |-> "#cccccc"]>> \o r.draws,
             placed |-> r.placed]
        Body(height) ==
            Result(height,
                   Container_render_loop(node,
                       PushOnEnter(height.st, Blockquote_style_override),
                       x + Blockquote_padding_left + Blockquote_border_width, y,
                       available_width - Blockquote_padding_left
                           - Blockquote_border_width,
                       1, <<>>, <<>>))
    IN Then(Blockquote_measure_height(node, st, available_width), Body)

\* node.render(renderer, x, y, available_width), by the node's class
render(node, st, x, y, available_width) ==
    CASE node.type = "TextSpan" -> TextSpan_render(node, st, x, y, available_width)
      [] node.type = "LineBreak" -> LineBreak_render(node, st, x, y, available_width)
      [] node.type = "Code" -> Code_render(node, st, x, y, available_width)
      [] node.type = "Strikethrough" -> Strikethrough_render(node, st, x, y, available_width)
      [] node.type \in {"Bold", "Italic"} -> StyledText_render(node, st, x, y, available_width)
      [] node.type = "Paragraph" -> Paragraph_render(node, st, x, y, available_width)
      [] node.type = "DocumentNode" -> DocumentNode_render(node, st, x, y, available_width)
      [] node.type = "Heading" -> Heading_render(node, st, x, y, available_width)
      [] node.type = "HorizontalRule" -> HorizontalRule_render(node, st, x, y, available_width)
      [] node.type = "ListItem" -> ListItem_render(node, st, x, y, available_width)
      [] node.type = "List" -> List_render(node, st, x, y, available_width)
      [] node.type = "Blockquote" -> Blockquote_render(node, st, x, y, available_width)

\* entering `with renderer.push_style(ov):`
push_style_enter(ov) ==
    /\ ~exc
    /\ Len(scopes) < MaxDepth
    /\ style_stack' = PushOnEnter(style_stack, ov)
    /\ scopes' =
         Append([k \in 1..Len(scopes) |-> [scopes[k] EXCEPT !.nested = TRUE]],
                [before |-> style_stack, cur |-> get_current_style,
                 ov |-> ov, nested |-> FALSE])
    /\ UNCHANGED <<exc, ended, walkVars>>
    /\ UNCHANGED <<treeVars, parser>>

\* the body of the innermost open scope raises
body_raise ==
    /\ ~exc
    /\ scopes # <<>>
    /\ exc' = TRUE
    /\ UNCHANGED <<style_stack, scopes, ended, walkVars>>
    /\ UNCHANGED <<treeVars, parser>>

\* the innermost scope ends: its body finished, or the error passes through.
\* No code of the renderer catches the error; it leaves with the outermost
\* scope.
push_style_exit ==
    /\ scopes # <<>>
    /\ style_stack' = PopOnExit(style_stack, exc)
    /\ scopes' = Front(scopes)
    /\ ended' = [valid |-> TRUE,
                 before |-> Last(scopes).before, cur |-> Last(scopes).cur,
                 after |-> style_stack',
                 cur_after |-> CurrentStyleOf(style_stack'),
                 raised |-> exc, nested |-> Last(scopes).nested]
    /\ exc' = (exc /\ Len(scopes) > 1)
    /\ UNCHANGED walkVars
    /\ UNCHANGED <<treeVars, parser>>

NoScopeEnded ==
    [valid |-> FALSE, before |-> <<>>, cur |-> config_get_style_global,
     after |-> <<>>, cur_after |-> config_get_style_global,
     raised |-> FALSE, nested |-> FALSE]

IdleStyle ==
    /\ scopes = <<>>
    /\ exc = FALSE
    /\ ended = NoScopeEnded

NoLayout == [valid |-> FALSE, lines |-> <<>>, height |-> 0]
NoRender == [valid |-> FALSE, h |-> 0, painted |-> <<>>, before |-> <<>>,
             after |-> <<>>]

IdleWalk ==
    /\ root = DocumentNode(<<>>)
    /\ avail = 0
    /\ lay = NoLayout
    /\ measured = <<>>
    /\ rendered = NoRender

InitStyle ==
    /\ style_stack = Renderer_init_stack
    /\ IdleStyle
    /\ IdleWalk
    /\ IdleTree
    /\ IdleParser

NextStyle ==
    \/ \E ov \in Overrides : push_style_enter(ov)
    \/ body_raise
    \/ push_style_exit

SpecStyle == InitStyle /\ [][NextStyle]_vars

(***************************************************************************)
(* The calls on a tree: the paragraphs and trees handed to the renderer    *)
(***************************************************************************)
RECURSIVE SeqsUpTo(_, _)
\* the sequences over S of length 0..n
SeqsUpTo(S, n) ==
    IF n = 0 THEN {<<>>}
    ELSE LET shorter == SeqsUpTo(S, n - 1)
         IN shorter \cup {Append(t, c) : t \in shorter, c \in S}

LatinTexts == SeqsUpTo({"a", " "}, MaxTextLen) \ {<<>>}
CJKTexts == {t \in SeqsUpTo({"zh", "wen", "a"}, MaxCJKLen) : HasCJK(t)}

\* the middle child of a paragraph: any text
MiddleItems == {TextSpan(t) : t \in LatinTexts \cup CJKTexts}

\* the children before and after it
FirstItems == {TextSpan(<<"a", "a", "a">>), LineBreak, Bold(TextSpan(<<"a">>))}
LastItems == {LineBreak, Code(TextSpan(<<"a">>))}

OptionalItem(S) == {<<>>} \cup {<<n>> : n \in S}

Paragraphs ==
    {Paragraph(first \o mid \o last) :
        first \in OptionalItem(FirstItems), mid \in OptionalItem(MiddleItems),
        last \in OptionalItem(LastItems)}

Widths == 1..MaxWidth

\* renderer.layout_engine.layout_paragraph(root, avail), called on its own
call_layout_paragraph ==
    /\ root.type = "Paragraph"
    /\ \E r \in {layout_paragraph(root, avail, style_stack)} :
          /\ lay' = [valid |-> TRUE, lines |-> r.lines, height |-> r.height]
          /\ style_stack' = r.st
    /\ UNCHANGED <<scopes, exc, ended, root, avail, measured, rendered>>
    /\ UNCHANGED <<treeVars, parser>>

\* root.measure_height(renderer, avail)
call_measure_height ==
    /\ \E r \in {measure_height(root, style_stack, avail)} :
       LET call == [v |-> r.v, before |-> style_stack, after |-> r.st]
       IN /\ measured' = IF measured = <<>> THEN <<call>>
                          ELSE <<call, measured[1]>>
          /\ style_stack' = r.st
    /\ UNCHANGED <<scopes, exc, ended, root, avail, lay, rendered>>
    /\ UNCHANGED <<treeVars, parser>>

\* root.render(renderer, x, y, avail) at the padding offset of the canvas
call_render ==
    /\ root.type = "Paragraph"
    /\ \E r \in {render(root, style_stack, GlobalStyle.padding[4],
                       GlobalStyle.padding[1], avail)} :
          /\ rendered' = [valid |-> TRUE, h |-> r.h, painted |-> r.painted,
                          before |-> style_stack, after |-> r.st]
          /\ style_stack' = r.st
    /\ UNCHANGED <<scopes, exc, ended, root, avail, lay, measured>>
    /\ UNCHANGED <<treeVars, parser>>

InitLayout ==
    /\ style_stack = Renderer_init_stack
    /\ IdleStyle
    /\ root \in Paragraphs
    /\ avail \in Widths
    /\ lay = NoLayout
    /\ measured = <<>>
    /\ rendered = NoRender
    /\ IdleTree
    /\ IdleParser

NextLayout ==
    \/ call_layout_paragraph
    \/ call_measure_height
    \/ call_render

SpecLayout == InitLayout /\ [][NextLayout]_vars

(***************************************************************************)
(* Measuring whole trees: documents of up to MaxBlocks blocks, and inline  *)
(* nodes measured on their own, at widths around the list indent.          *)
(***************************************************************************)
\* ListItem(content, index=None): the index of an item of an unordered list
NoIndex == -1

ParagraphPlain == Paragraph(<<TextSpan(<<"a", " ", "a">>), Bold(TextSpan(<<"a">>))>>)
ParagraphNested ==
    Paragraph(<<Italic(Bold(TextSpan(<<"a">>))), LineBreak, Code(TextSpan(<<"a">>))>>)
ParagraphCJK ==
    Paragraph(<<Strikethrough(TextSpan(<<"zh">>)), TextSpan(<<"a", " ", "a", " ", "a">>)>>)

Blocks ==
    {Heading(<<"a">>, 1), Heading(<<"a", "a">>, 6), HorizontalRule,
     ParagraphPlain, ParagraphNested, ParagraphCJK,
     Blockquote(<<ParagraphNested>>),
     Blockquote(<<Blockquote(<<ParagraphPlain>>), TextSpan(<<"a">>)>>),
     ListNode(<<ListItemNode(<<ParagraphPlain>>, 1),
                ListItemNode(<<ParagraphCJK>>, 2)>>, TRUE),
     ListNode(<<ListItemNode(<<ParagraphNested>>, NoIndex)>>, FALSE)}

InlineRoots ==
    {Italic(Bold(TextSpan(<<"a">>))), Code(TextSpan(<<"a", " ", "a">>)), LineBreak}

Documents == {DocumentNode(blocks) : blocks \in SeqsUpTo(Blocks, MaxBlocks)}

MeasureWidths ==
    Widths \cup {ListItem_indent + ListItem_marker_width + w : w \in Widths}

InitMeasure ==
    /\ style_stack = Renderer_init_stack
    /\ IdleStyle
    /\ root \in Documents \cup InlineRoots
    /\ avail \in MeasureWidths
    /\ lay = NoLayout
    /\ measured = <<>>
    /\ rendered = NoRender
    /\ IdleTree
    /\ IdleParser

NextMeasure == call_measure_height

SpecMeasure == InitMeasure /\ [][NextMeasure]_vars

(***************************************************************************)
(* core/renderer.py: Renderer.render_to_image on whole documents.  The     *)
(* call is made with a height or without one (height=None).                *)
(***************************************************************************)
NoHeight == [given |-> FALSE, value |-> 0]
ExplicitHeight(h) == [given |-> TRUE, value |-> h]

\* Renderer._calculate_height
Renderer_calculate_height(root_node, width, st) ==
    LET padding == DictGet(CurrentStyleOf(st), "padding", <<0, 0, 0, 0>>)
        Result(content_height) ==
            [v |-> content_height.v + padding[1] + padding[3],
             st |-> content_height.st]
    IN Result(measure_height(root_node, st, width - padding[2] - padding[4]))

\* Renderer.render_to_image: the image is created with the given or the
\* calculated height, then the root is rendered at the padding offset.
\* passes lists the walks over the tree the call starts, paint_start is the
\* style stack at the moment root_node.render is called.
render_to_image(root_node, width, height, st) ==
    LET Paint(h) ==
            LET padding == DictGet(CurrentStyleOf(h.st), "padding", <<0, 0, 0, 0>>)
                Result(r) ==
                    [height |-> h.v,
                     background |-> DictGet(CurrentStyleOf(h.st),
                                            "background_color", "#FFFFFF"),
                     passes |-> IF height.given THEN <<"paint">>
                                ELSE <<"measure", "paint">>,
                     paint_start |-> h.st,
                     x |-> padding[4], y |-> padding[1],
                     w |-> r.w, h |-> r.h, draws |-> r.draws, placed |-> r.placed,
                     st |-> r.st]
            IN Result(render(root_node, h.st, padding[4], padding[1],
                             width - padding[2] - padding[4]))
    IN Then(IF height.given THEN [v |-> height.value, st |-> st]
            ELSE Renderer_calculate_height(root_node, width, st), Paint)

\* the heights a caller passes
HeightArgs == {NoHeight, ExplicitHeight(60)}

\* the image width that leaves the content width avail between the paddings
ImageWidth ==
    avail + config_get_style_global.padding[2] + config_get_style_global.padding[4]

\* renderer.render_to_image(root, width, height)
call_render_to_image ==
    /\ root.type = "DocumentNode"
    /\ \E height \in HeightArgs :
       \E r \in {render_to_image(root, ImageWidth, height, style_stack)} :
          /\ rendered' = [valid |-> TRUE, image |-> r, height_arg |-> height,
                          before |-> style_stack, after |-> r.st]
          /\ style_stack' = r.st
    /\ UNCHANGED <<scopes, exc, ended, root, avail, lay, measured>>
    /\ UNCHANGED <<treeVars, parser>>

\* the blocks of the documents handed to render_to_image: blocks of the
\* construction API, a list item holding an inline Code, and a Blockquote
\* around a DocumentNode, as the parser builds it
RenderBlocks ==
    {Heading(<<"a">>, 1), HorizontalRule, ParagraphNested,
     Blockquote(<<Blockquote(<<ParagraphPlain>>), TextSpan(<<"a">>)>>),
     ListNode(<<ListItemNode(<<ParagraphPlain>>, 1),
                ListItemNode(<<ParagraphCJK>>, 2)>>, TRUE),
     ListNode(<<ListItemNode(<<Code(TextSpan(<<"a">>))>>, NoIndex)>>, FALSE),
     Blockquote(<<DocumentNode(<<ParagraphCJK>>)>>)}

RenderDocuments ==
    {DocumentNode(blocks) : blocks \in SeqsUpTo(RenderBlocks, MaxBlocks)}

\* the content widths: the narrowest and the widest, for a top-level block
\* and for the content of a list item
RenderWidths ==
    {1, MaxWidth, ListItem_indent + ListItem_marker_width + 1,
     ListItem_indent + ListItem_marker_width + MaxWidth}

InitRender ==
    /\ style_stack = Renderer_init_stack
    /\ IdleStyle
    /\ root \in RenderDocuments
    /\ avail \in RenderWidths
    /\ lay = NoLayout
    /\ measured = <<>>
    /\ rendered = NoRender
    /\ IdleTree
    /\ IdleParser

NextRender == call_render_to_image

SpecRender == InitRender /\ [][NextRender]_vars

(***************************************************************************)
(* core/nodes: the node objects and the operations that link them.  A node *)
(* is its id; nodes[id] holds its fields.                                  *)
(***************************************************************************)
\* None where a node is expected (MDNode.__init__: self.parent = None)
NoNode == 0

NodeKinds == {"TextSpan", "Paragraph", "DocumentNode", "ListItem", "List"}

\* a constructor's super().__init__(): the new object's id is Len(H) + 1
Alloc(H, kind, index, ordered) ==
    Append(H, [kind |-> kind, parent |-> NoNode, children |-> <<>>,
               index |-> index, ordered |-> ordered])

\* MDNode.add_child(self, child)
add_child(H, self, child) ==
    [H EXCEPT ![child].parent = self, ![self].children = Append(@, child)]

\* MDNode.add(self, child), the method the node classes call on themselves
MDNode_add(H, self, child) == add_child(H, self, child)

\* TextSpan(text)
TextSpan_init(H) == Alloc(H, "TextSpan", NoIndex, FALSE)

\* Paragraph(content) for a str content
Paragraph_init(H) ==
    MDNode_add(TextSpan_init(Alloc(H, "Paragraph", NoIndex, FALSE)),
               Len(H) + 1, Len(H) + 2)

\* ListItem(content, index): content is a node id, or NoNode for None
ListItem_init(H, content, index) ==
    IF content = NoNode THEN Alloc(H, "ListItem", index, FALSE)
    ELSE MDNode_add(Alloc(H, "ListItem", index, FALSE), Len(H) + 1, content)

\* List.add(self, child)
List_add(H, self, child) ==
    IF H[child].kind # "ListItem"
    THEN MDNode_add(ListItem_init(H, child,
                        IF H[self].ordered THEN Len(H[self].children) + 1
                        ELSE NoIndex),
                    self, Len(H) + 1)
    ELSE MDNode_add([H EXCEPT ![child].index =
                        IF H[self].ordered THEN Len(H[self].children) + 1
                        ELSE NoIndex],
                    self, child)

\* List.__init__: the loop `for i, item in enumerate(items)` from item k on
RECURSIVE List_init_loop(_, _, _, _)
List_init_loop(H, self, items, k) ==
    IF k > Len(items) THEN H
    ELSE IF H[items[k]].kind = "ListItem"
    THEN List_init_loop(
             List_add([H EXCEPT ![items[k]].index =
                          IF H[self].ordered THEN k ELSE NoIndex],
                      self, items[k]),
             self, items, k + 1)
    ELSE List_init_loop(
             List_add(ListItem_init(H, items[k],
                          IF H[self].ordered THEN k ELSE NoIndex),
                      self, Len(H) + 1),
             self, items, k + 1)

\* List(*items, ordered=ordered)
List_init(H, items, ordered) ==
    List_init_loop(Alloc(H, "List", NoIndex, ordered), Len(H) + 1, items, 1)

\* MDNode.__add__(self, other) for a node other: [H, result]
MDNode_concat(H, self, other) ==
    [H |-> add_child(add_child(Alloc(H, "DocumentNode", NoIndex, FALSE),
                               Len(H) + 1, self),
                     Len(H) + 1, other),
     result |-> Len(H) + 1]

\* ListItem.__add__: `for i, item in enumerate(items): item.index = i + 1`
RECURSIVE Renumber(_, _, _)
Renumber(H, items, k) ==
    IF k > Len(items) THEN H
    ELSE Renumber([H EXCEPT ![items[k]].index = k], items, k + 1)

\* ListItem.__add__(self, other): [H, result]
ListItem_concat(H, self, other) ==
    IF H[other].kind = "ListItem"
    THEN LET Numbered(H2) ==
                 IF H2[Len(H) + 1].ordered
                 THEN Renumber(H2, H2[Len(H) + 1].children, 1) ELSE H2
         IN [H |-> Numbered(List_add(List_add(
                       List_init(H, <<>>, H[self].index # NoIndex),
                       Len(H) + 1, self), Len(H) + 1, other)),
             result |-> Len(H) + 1]
    ELSE MDNode_concat(H, self, other)

\* List.__add__: the loop `for item in other.children` from item k on
RECURSIVE List_extend_loop(_, _, _, _)
List_extend_loop(H, self, items, k) ==
    IF k > Len(items) THEN H
    ELSE List_extend_loop(List_add(H, self, items[k]), self, items, k + 1)

\* List.__add__(self, other): [H, result]
List_concat(H, self, other) ==
    IF H[other].kind = "ListItem"
    THEN [H |-> List_add(H, self, other), result |-> self]
    ELSE IF H[other].kind = "List"
    THEN [H |-> List_extend_loop(H, self, H[other].children, 1), result |-> self]
    ELSE MDNode_concat(H, self, other)

\* self + other, by the class of self
concat(H, self, other) ==
    CASE H[self].kind = "ListItem" -> ListItem_concat(H, self, other)
      [] H[self].kind = "List" -> List_concat(H, self, other)
      [] OTHER -> MDNode_concat(H, self, other)

\* MD2Img.__radd__: `for child in self.root.children` from child k on
RECURSIVE MD2Img_radd_loop(_, _, _, _)
MD2Img_radd_loop(H, result_root, children, k) ==
    IF k > Len(children) THEN H
    ELSE MD2Img_radd_loop(add_child(H, result_root, children[k]), result_root,
                          children, k + 1)

\* MD2Img.__radd__(self, other) for a str other: result.root is Len(H) + 1
MD2Img_radd(H, self_root) ==
    MD2Img_radd_loop(
        add_child(Paragraph_init(Alloc(H, "DocumentNode", NoIndex, FALSE)),
                  Len(H) + 1, Len(H) + 2),
        Len(H) + 1, H[self_root].children, 1)

\* list.remove(child) on self.children: the first occurrence goes
RECURSIVE SeqRemove(_, _)
SeqRemove(seq, x) ==
    IF seq = <<>> THEN <<>>
    ELSE IF Head(seq) = x THEN Tail(seq)
    ELSE <<Head(seq)>> \o SeqRemove(Tail(seq), x)

children_remove(H, self, child) ==
    [H EXCEPT ![self].children = SeqRemove(@, child)]

\* str(n), the decimal digits of n >= 0
DigitChars == <<"0", "1", "2", "3", "4", "5", "6", "7", "8", "9">>
RECURSIVE IntToStr(_)
IntToStr(n) ==
    IF n < 10 THEN <<DigitChars[n + 1]>>
    ELSE IntToStr(n \div 10) \o <<DigitChars[(n % 10) + 1]>>

\* ListItem.render: marker_text
ListItem_marker_text(index) ==
    IF index # NoIndex THEN IntToStr(index) \o <<".">> ELSE <<"bullet">>

\* List.render: the marker each child paints, in child order
List_render_markers(H, self) ==
    [k \in 1..Len(H[self].children) |->
        ListItem_marker_text(H[H[self].children[k]].index)]

\* the heap stays within the bounds of the model
\* the number of parent-child links among the nodes 1..n
RECURSIVE Links(_, _)
Links(H, n) == IF n = 0 THEN 0 ELSE Len(H[n].children) + Links(H, n - 1)

Bounded(H) ==
    /\ Len(H) <= MaxNodes
    /\ \A n \in 1..Len(H) : Len(H[n].children) <= MaxChildren
    /\ Links(H, Len(H)) <= MaxLinks

Ids == 1..Len(nodes)
ItemIndexes == {NoIndex, 1, 5}

Step(H) == Bounded(H) /\ nodes' = H /\ last_op' = NoOp /\ UNCHANGED mds

\* List(*items, ordered=ordered)
new_List ==
    /\ \E items \in SeqsUpTo(Ids, MaxItems), ordered \in BOOLEAN :
          Step(List_init(nodes, items, ordered))
    /\ UNCHANGED <<styleVars, walkVars, parser>>

\* list_node.add(child)
call_List_add ==
    /\ \E self \in Ids, child \in Ids :
          /\ nodes[self].kind = "List"
          /\ Step(List_add(nodes, self, child))
    /\ UNCHANGED <<styleVars, walkVars, parser>>

\* _parse_list, processor.py 152-163: one list line with the digits marker
parse_list_item ==
    /\ \E self \in Ids, marker \in ItemIndexes \ {NoIndex} :
          /\ nodes[self].kind = "List"
          /\ \E H \in {ListItem_init(TextSpan_init(nodes), Len(nodes) + 1, NoIndex)} :
                Step(List_add([H EXCEPT ![Len(H)].index =
                                  IF nodes[self].ordered THEN marker ELSE NoIndex],
                              self, Len(H)))
    /\ UNCHANGED <<styleVars, walkVars, parser>>

\* self + other for two nodes; List + itself with children never returns
call_concat(self, other) ==
    /\ ~(nodes[self].kind = "List" /\ other = self /\ nodes[self].children # <<>>)
    /\ \E r \in {concat(nodes, self, other)} :
          /\ Bounded(r.H)
          /\ nodes' = r.H
          /\ last_op' = IF nodes[self].kind = "ListItem" /\ nodes[other].kind = "ListItem"
                        THEN [op |-> "ListItem_add", target |-> r.result,
                              flag |-> nodes[self].index # NoIndex]
                        ELSE NoOp
    /\ UNCHANGED <<mds, styleVars, walkVars, parser>>

\* node.add_child(child)
call_add_child ==
    /\ \E self \in Ids, child \in Ids : Step(add_child(nodes, self, child))
    /\ UNCHANGED <<styleVars, walkVars, parser>>

\* md.add(node) for a node, and for a str, which becomes a Paragraph
MD2Img_add ==
    /\ \E m \in 1..Len(mds) :
          \/ \E node \in Ids : Step(add_child(nodes, mds[m], node))
          \/ Step(add_child(Paragraph_init(nodes), mds[m], Len(nodes) + 1))
    /\ UNCHANGED <<styleVars, walkVars, parser>>

\* "text" + md
call_MD2Img_radd ==
    /\ \E m \in 1..Len(mds) :
          /\ Bounded(MD2Img_radd(nodes, mds[m]))
          /\ nodes' = MD2Img_radd(nodes, mds[m])
          /\ mds' = Append(mds, Len(nodes) + 1)
          /\ last_op' = NoOp
    /\ UNCHANGED <<styleVars, walkVars, parser>>

\* an ordered List whose children are ListItems numbered 1..N
WellNumbered(H, self) ==
    /\ H[self].kind = "List" /\ H[self].ordered
    /\ \A k \in 1..Len(H[self].children) :
          /\ H[H[self].children[k]].kind = "ListItem"
          /\ H[H[self].children[k]].index = k

\* list_node.children.remove(child)
call_children_remove ==
    /\ \E self \in Ids, k \in 1..MaxChildren :
          /\ nodes[self].kind = "List"
          /\ k <= Len(nodes[self].children)
          /\ nodes' = children_remove(nodes, self, nodes[self].children[k])
          /\ last_op' = [op |-> "remove", target |-> self,
                         flag |-> WellNumbered(nodes, self)]
    /\ UNCHANGED <<mds, styleVars, walkVars, parser>>

\* The objects a caller has constructed before it links them: none yet, or
\* two ListItems and a TextSpan,
ItemsAndText(index1, index2) ==
    TextSpan_init(ListItem_init(ListItem_init(<<>>, NoNode, index1), NoNode, index2))

\* an ordered List to which ListItems A, B and C were appended,
ListABC ==
    List_add(List_add(List_add(
        ListItem_init(ListItem_init(ListItem_init(
            List_init(<<>>, <<>>, TRUE), NoNode, NoIndex), NoNode, NoIndex),
            NoNode, NoIndex),
        1, 2), 1, 3), 1, 4)

\* two Lists of one ListItem each,
TwoLists(ordered1, ordered2) ==
    List_init(List_init(ItemsAndText(NoIndex, NoIndex), <<1>>, ordered1),
              <<2>>, ordered2)

\* and an MD2Img (its root DocumentNode) next to a TextSpan
DocAndText == TextSpan_init(Alloc(<<>>, "DocumentNode", NoIndex, FALSE))

IdleRest ==
    /\ style_stack = Renderer_init_stack
    /\ IdleStyle
    /\ IdleWalk
    /\ IdleParser

InitList ==
    /\ nodes \in {<<>>} \cup
                {ItemsAndText(i1, i2) : i1 \in ItemIndexes, i2 \in ItemIndexes}
    /\ mds = <<>>
    /\ last_op = NoOp
    /\ IdleRest

\* + between the operands the list classes handle themselves
ListOperands(self, other) ==
    \/ nodes[self].kind = "ListItem" /\ nodes[other].kind = "ListItem"
    \/ nodes[self].kind = "List" /\ nodes[other].kind \in {"ListItem", "List"}

NextList ==
    \/ new_List
    \/ call_List_add
    \/ parse_list_item
    \/ \E self \in Ids, other \in Ids : ListOperands(self, other) /\ call_concat(self, other)

SpecList == InitList /\ [][NextList]_vars

InitRemoval ==
    /\ nodes = ListABC
    /\ mds = <<>>
    /\ last_op = NoOp
    /\ IdleRest

NextRemoval ==
    \/ call_children_remove
    \/ call_List_add

SpecRemoval == InitRemoval /\ [][NextRemoval]_vars

InitTree ==
    /\ \/ nodes = DocAndText /\ mds = <<1>>
       \/ /\ nodes \in {TwoLists(o1, o2) : o1 \in BOOLEAN, o2 \in BOOLEAN}
          /\ mds = <<>>
    /\ last_op = NoOp
    /\ IdleRest

NextTree ==
    \/ call_add_child
    \/ call_List_add
    \/ \E self \in Ids, other \in Ids : call_concat(self, other)
    \/ MD2Img_add
    \/ call_MD2Img_radd

SpecTree == InitTree /\ [][NextTree]_vars

(***************************************************************************)
(* base.py, block.py: + with a right operand of any type                   *)
(***************************************************************************)
\* the right operands of +: a node, a str, or an object of another type
Operands ==
    {[kind |-> "node", id |-> n] : n \in Ids}
        \cup {[kind |-> "str", id |-> NoNode], [kind |-> "other", id |-> NoNode]}

Returned(r) == [H |-> r.H, result |-> r.result, raised |-> FALSE]

\* a + that builds its DocumentNode and adopts self before it tests the operand
MDNode_add_operand_LateCheck(H, self, operand) ==
    IF operand.kind = "str"
    THEN Returned(MDNode_concat(TextSpan_init(H), self, Len(H) + 1))
    ELSE IF operand.kind = "node" THEN Returned(MDNode_concat(H, self, operand.id))
    ELSE [H |-> add_child(Alloc(H, "DocumentNode", NoIndex, FALSE), Len(H) + 1, self),
          result |-> NoNode, raised |-> TRUE]

\* MDNode.__add__(self, other): a str becomes a TextSpan, any other object
\* that is no MDNode raises TypeError; [H, result, raised]
MDNode_add_operand(H, self, operand) ==
    IF operand.kind = "str"
    THEN Returned(MDNode_concat(TextSpan_init(H), self, Len(H) + 1))
    ELSE IF operand.kind = "node" THEN Returned(MDNode_concat(H, self, operand.id))
    ELSE [H |-> H, result |-> NoNode, raised |-> TRUE]

\* self + other: ListItem.__add__ and List.__add__ take the ListItem and List
\* operands and leave the rest to super().__add__
add_operand(H, self, operand) ==
    IF operand.kind = "node" THEN Returned(concat(H, self, operand.id))
    ELSE MDNode_add_operand(H, self, operand)

\* self + other for any right operand
call_add_operand ==
    /\ \E self \in Ids, operand \in Operands :
          /\ ~(/\ nodes[self].kind = "List"
               /\ operand.id = self
               /\ nodes[self].children # <<>>)
          /\ \E r \in {add_operand(nodes, self, operand)} :
                /\ Bounded(r.H)
                /\ nodes' = r.H
                /\ last_op' = [op |-> "add", target |-> self, flag |-> r.H = nodes,
                               operand |-> operand.kind, raised |-> r.raised]
    /\ UNCHANGED <<mds, styleVars, walkVars, parser>>

InitConcat ==
    /\ nodes \in {DocAndText, ListABC}
                    \cup {ItemsAndText(i1, i2) : i1 \in ItemIndexes, i2 \in ItemIndexes}
                    \cup {TwoLists(o1, o2) : o1 \in BOOLEAN, o2 \in BOOLEAN}
    /\ mds = <<>>
    /\ last_op = NoOp
    /\ IdleRest

NextConcat == call_add_operand

SpecConcat == InitConcat /\ [][NextConcat]_vars

(***************************************************************************)
(* processor.py: MarkdownProcessor.  A text is a sequence of one-character *)
(* strings; positions and line indices count from 1 (Python's i is i - 1). *)
(***************************************************************************)
IsSpace(c) == c \in {" ", "\t"}
IsDigit(c) == c \in {"0", "1", "2", "3", "4", "5", "6", "7", "8", "9"}

\* the first position from k on that holds no whitespace (Len(t) + 1 if none)
RECURSIVE SkipSpace(_, _)
SkipSpace(t, k) ==
    IF k <= Len(t) /\ IsSpace(t[k]) THEN SkipSpace(t, k + 1) ELSE k

\* the first position from k on that holds no digit
RECURSIVE SkipDigits(_, _)
SkipDigits(t, k) ==
    IF k <= Len(t) /\ IsDigit(t[k]) THEN SkipDigits(t, k + 1) ELSE k

\* the last position up to k that holds no whitespace (0 if none)
RECURSIVE LastNonSpace(_, _)
LastNonSpace(t, k) ==
    IF k >= 1 /\ IsSpace(t[k]) THEN LastNonSpace(t, k - 1) ELSE k

\* t[a..b], empty when b < a
Slice(t, a, b) == IF b < a THEN <<>> ELSE SubSeq(t, a, b)

\* str.strip()
Strip(t) == Slice(t, SkipSpace(t, 1), LastNonSpace(t, Len(t)))

\* text.split("\n"): SplitLinesFrom(t, k, line) with line the current line
RECURSIVE SplitLinesFrom(_, _, _)
SplitLinesFrom(t, k, line) ==
    IF k > Len(t) THEN <<line>>
    ELSE IF t[k] = "\n" THEN <<line>> \o SplitLinesFrom(t, k + 1, <<>>)
    ELSE SplitLinesFrom(t, k + 1, Append(line, t[k]))

SplitLines(t) == SplitLinesFrom(t, 1, <<>>)

\* "\n".join(lines)
RECURSIVE JoinLines(_)
JoinLines(lines) ==
    IF lines = <<>> THEN <<>>
    ELSE IF Len(lines) = 1 THEN lines[1]
    ELSE lines[1] \o <<"\n">> \o JoinLines(Tail(lines))

\* int(marker) for a string of digits
RECURSIVE StrToInt(_)
StrToInt(digits) ==
    IF digits = <<>> THEN 0
    ELSE StrToInt(Front(digits)) * 10
         + (CHOOSE d \in 0..9 : DigitChars[d + 1] = Last(digits))

NoMatch == [ok |-> FALSE]

\* the number of '#' at the start of the line
RECURSIVE CountHashes(_, _)
CountHashes(t, k) ==
    IF k <= Len(t) /\ t[k] = "#" THEN CountHashes(t, k + 1) ELSE k - 1

\* heading_pattern.match(line): ^(#{1,6})\s+(.*?)$
heading_match(line) ==
    IF CountHashes(line, 1) \in 1..6
       /\ CountHashes(line, 1) < Len(line)
       /\ IsSpace(line[CountHashes(line, 1) + 1])
    THEN [ok |-> TRUE, level |-> CountHashes(line, 1),
          text |-> Slice(line, SkipSpace(line, CountHashes(line, 1) + 1), Len(line))]
    ELSE NoMatch

\* hr_pattern.match(line): ^([-*_])\s*(\1\s*){2,}$
hr_match(line) ==
    /\ line # <<>>
    /\ line[1] \in {"-", "*", "_"}
    /\ \A k \in 1..Len(line) : line[k] = line[1] \/ IsSpace(line[k])
    /\ Cardinality({k \in 1..Len(line) : line[k] = line[1]}) >= 3

\* unordered_list_pattern.match(line): ^(\s*)([-*+])\s+(.*?)$
unordered_list_match(line) ==
    IF SkipSpace(line, 1) < Len(line)
       /\ line[SkipSpace(line, 1)] \in {"-", "*", "+"}
       /\ IsSpace(line[SkipSpace(line, 1) + 1])
    THEN [ok |-> TRUE, indent |-> SkipSpace(line, 1) - 1,
          marker |-> <<line[SkipSpace(line, 1)]>>,
          content |-> Slice(line, SkipSpace(line, SkipSpace(line, 1) + 1), Len(line))]
    ELSE NoMatch

\* ordered_list_pattern.match(line): ^(\s*)(\d+)\.?\s+(.*?)$
ordered_list_match(line) ==
    LET start == SkipSpace(line, 1)
        stop == SkipDigits(line, start)
        after == IF stop <= Len(line) /\ line[stop] = "." THEN stop + 1 ELSE stop
    IN IF stop > start /\ after <= Len(line) /\ IsSpace(line[after])
       THEN [ok |-> TRUE, indent |-> start - 1,
             marker |-> Slice(line, start, stop - 1),
             content |-> Slice(line, SkipSpace(line, after), Len(line))]
       ELSE NoMatch

\* blockquote_pattern.match(line): ^>\s*(.*?)$
blockquote_match(line) ==
    IF line # <<>> /\ line[1] = ">"
    THEN [ok |-> TRUE, content |-> Slice(line, SkipSpace(line, 2), Len(line))]
    ELSE NoMatch

\* _is_block_start(line)
is_block_start(line) ==
    \/ heading_match(line).ok
    \/ hr_match(line)
    \/ unordered_list_match(line).ok
    \/ ordered_list_match(line).ok
    \/ blockquote_match(line).ok

(***************************************************************************)
(* processor.py: the inline patterns.  A pattern is the sequence of its    *)
(* alternatives, each `D(.*?)D` for a delimiter D; a line holds no "\n";   *)
(* the character "bt" stands for the backtick.                             *)
(***************************************************************************)
code_pattern == << <<"bt">> >>
strikethrough_pattern == << <<"~", "~">> >>
bold_pattern == << <<"*", "*">>, <<"_", "_">> >>
italic_pattern == << <<"*">>, <<"_">> >>

\* style_patterns, in the order _parse_inline_styles tries them
style_patterns ==
    << [pattern |-> code_pattern, node_class |-> "Code"],
       [pattern |-> strikethrough_pattern, node_class |-> "Strikethrough"],
       [pattern |-> bold_pattern, node_class |-> "Bold"],
       [pattern |-> italic_pattern, node_class |-> "Italic"] >>

\* the delimiter d stands at position k of t
StartsAt(t, k, d) ==
    /\ k >= 1
    /\ k + Len(d) - 1 <= Len(t)
    /\ SubSeq(t, k, k + Len(d) - 1) = d

\* the lazy (.*?)D: the first position from k on where d stands, 0 if none
RECURSIVE FindClose(_, _, _)
FindClose(t, k, d) ==
    IF k > Len(t) THEN 0
    ELSE IF StartsAt(t, k, d) THEN k
    ELSE FindClose(t, k + 1, d)

\* the alternatives from a on, tried in order at position s
RECURSIVE MatchAt(_, _, _, _)
MatchAt(t, s, pattern, a) ==
    IF a > Len(pattern) THEN NoMatch
    ELSE IF StartsAt(t, s, pattern[a])
            /\ FindClose(t, s + Len(pattern[a]), pattern[a]) # 0
    THEN [ok |-> TRUE, start |-> s, alt |-> a,
          end |-> FindClose(t, s + Len(pattern[a]), pattern[a]) + Len(pattern[a]),
          group |-> Slice(t, s + Len(pattern[a]),
                          FindClose(t, s + Len(pattern[a]), pattern[a]) - 1)]
    ELSE MatchAt(t, s, pattern, a + 1)

\* pattern.finditer(text): the next match starting at position s or later
RECURSIVE NextMatch(_, _, _)
NextMatch(t, s, pattern) ==
    IF s > Len(t) THEN NoMatch
    ELSE IF MatchAt(t, s, pattern, 1).ok THEN MatchAt(t, s, pattern, 1)
    ELSE NextMatch(t, s + 1, pattern)

\* a search that finds no marker: every line would stay one TextSpan
has_inline_marker_Never(t) == FALSE

\* re.search(r"\*\*|__|_|\*|`|~~", text)
has_inline_marker(t) ==
    \E k \in 1..Len(t) :
        t[k] \in {"*", "_", "bt"} \/ StartsAt(t, k, <<"~", "~">>)

\* match.group(1) or (match.group(2) if len(match.groups()) > 1 else None):
\* the group of the other alternative is None and an empty group(1) is falsy
NoContent == [none |-> TRUE, text |-> <<>>]
match_content(m, pattern) ==
    IF m.alt = 1
    THEN IF m.group # <<>> THEN [none |-> FALSE, text |-> m.group] ELSE NoContent
    ELSE [none |-> FALSE, text |-> m.group]

\* StyledText.__init__(content): self.add(content) on None raises
\* AttributeError at `child.parent = self`
StyledText_init(node_class, content) ==
    IF content.none THEN [raised |-> TRUE, nodes |-> <<>>]
    ELSE [raised |-> FALSE,
          nodes |-> <<StyledText(node_class, <<TextSpan(content.text)>>)>>]

\* result.extend(more) or result.append(node), once an exception is on its way
Extend(result, more) ==
    IF result.raised \/ more.raised THEN [raised |-> TRUE, nodes |-> <<>>]
    ELSE [raised |-> FALSE, nodes |-> result.nodes \o more.nodes]

NoNodes == [raised |-> FALSE, nodes |-> <<>>]

RECURSIVE parse_inline_styles(_)
RECURSIVE inline_matches(_, _, _, _)
RECURSIVE inline_patterns(_, _)

\* the loop `for match in pattern.finditer(text)` of style p from last_end on,
\* then the remaining text
inline_matches(text, p, last_end, result) ==
    LET Continue(m) ==
            IF ~m.ok
            THEN IF last_end <= Len(text)
                 THEN Extend(result, parse_inline_styles(Slice(text, last_end, Len(text))))
                 ELSE result
            ELSE inline_matches(text, p, m.end,
                     Extend(Extend(result,
                                   IF m.start > last_end
                                   THEN parse_inline_styles(Slice(text, last_end, m.start - 1))
                                   ELSE NoNodes),
                            StyledText_init(style_patterns[p].node_class,
                                            match_content(m, style_patterns[p].pattern))))
    IN Continue(NextMatch(text, last_end, style_patterns[p].pattern))

\* the loop `for pattern, node_class in style_patterns` from style p on
inline_patterns(text, p) ==
    IF p > Len(style_patterns) THEN [raised |-> FALSE, nodes |-> <<TextSpan(text)>>]
    ELSE IF NextMatch(text, 1, style_patterns[p].pattern).ok
    THEN inline_matches(text, p, 1, NoNodes)
    ELSE inline_patterns(text, p + 1)

\* _parse_inline_styles(text): [raised, nodes]
parse_inline_styles(text) ==
    IF ~has_inline_marker(text) THEN [raised |-> FALSE, nodes |-> <<TextSpan(text)>>]
    ELSE inline_patterns(text, 1)

\* _create_paragraph(lines): the loop from line k on; [raised, nodes]
RECURSIVE create_paragraph_loop(_, _, _)
create_paragraph_loop(lines, k, result) ==
    IF k > Len(lines) THEN result
    ELSE create_paragraph_loop(lines, k + 1,
             Extend(Extend(result, parse_inline_styles(lines[k])),
                    IF k < Len(lines)
                    THEN [raised |-> FALSE, nodes |-> <<LineBreak>>]
                    ELSE NoNodes))

\* _create_paragraph(lines): [raised, node]
create_paragraph(lines) ==
    LET Made(r) == [raised |-> r.raised, node |-> Paragraph(r.nodes)]
    IN Made(create_paragraph_loop(lines, 1, NoNodes))

(***************************************************************************)
(* processor.py: the block sub-parsers                                     *)
(***************************************************************************)
\* List.add(child) for a ListItem child, on the tree being built
ListNode_add(list_node, item) ==
    ListNode(Append(list_node.children,
                    [item EXCEPT !.index = IF list_node.ordered
                                           THEN Len(list_node.children) + 1
                                           ELSE NoIndex]),
             list_node.ordered)

\* current_item.add(TextSpan(content)): current_item is the item added last
current_item_add(list_node, child) ==
    [list_node EXCEPT !.children[Len(list_node.children)].children = Append(@, child)]

\* pattern.match(line) for the pattern _parse_list has chosen
list_pattern_match(line, ordered) ==
    IF ordered THEN ordered_list_match(line) ELSE unordered_list_match(line)

\* line.startswith(" " * n)
StartsWithSpaces(line, n) ==
    /\ Len(line) >= n
    /\ \A k \in 1..n : line[k] = " "

\* the item of a matched line: ListItem(content), then index = int(marker)
\* when ordered
parsed_item(m, ordered) ==
    ListItemNode(<<TextSpan(m.content)>>,
                 IF ordered THEN StrToInt(m.marker) ELSE NoIndex)

\* _parse_list: the loop `while i < len(lines)` from line i on; [node, new_i]
RECURSIVE parse_list_loop(_, _, _, _, _)
parse_list_loop(lines, i, ordered, base_indent, list_node) ==
    IF i > Len(lines) THEN [node |-> list_node, new_i |-> i]
    ELSE IF Strip(lines[i]) = <<>>
    THEN IF i + 1 <= Len(lines) /\ list_pattern_match(lines[i + 1], ordered).ok
         THEN parse_list_loop(lines, i + 1, ordered, base_indent, list_node)
         ELSE [node |-> list_node, new_i |-> i + 1]
    ELSE IF list_pattern_match(lines[i], ordered).ok
    THEN parse_list_loop(lines, i + 1, ordered, base_indent,
             ListNode_add(list_node,
                          parsed_item(list_pattern_match(lines[i], ordered), ordered)))
    ELSE IF StartsWithSpaces(lines[i], base_indent + 2) /\ list_node.children # <<>>
    THEN parse_list_loop(lines, i + 1, ordered, base_indent,
             current_item_add(list_node, TextSpan(Strip(lines[i]))))
    ELSE [node |-> list_node, new_i |-> i]

\* _parse_list(lines, start_idx, ordered): [node, new_i]
parse_list(lines, start_idx, ordered) ==
    IF ~list_pattern_match(lines[start_idx], ordered).ok
    THEN [node |-> ListNode(<<>>, ordered), new_i |-> start_idx + 1]
    ELSE parse_list_loop(lines, start_idx, ordered,
                         list_pattern_match(lines[start_idx], ordered).indent,
                         ListNode(<<>>, ordered))

\* _parse_blockquote: the collecting loop from line i on; [lines, new_i]
RECURSIVE blockquote_collect(_, _, _)
blockquote_collect(lines, i, blockquote_lines) ==
    IF i <= Len(lines) /\ Strip(lines[i]) = <<>>
    THEN blockquote_collect(lines, i + 1, Append(blockquote_lines, <<>>))
    ELSE IF i <= Len(lines) /\ blockquote_match(lines[i]).ok
    THEN blockquote_collect(lines, i + 1,
                            Append(blockquote_lines, blockquote_match(lines[i]).content))
    ELSE [lines |-> blockquote_lines, new_i |-> i]

\* parse: the loop collecting paragraph lines from line j on; [lines, j]
RECURSIVE paragraph_collect(_, _, _)
paragraph_collect(lines, j, paragraph_lines) ==
    IF j <= Len(lines) /\ Strip(lines[j]) # <<>> /\ ~is_block_start(Strip(lines[j]))
    THEN paragraph_collect(lines, j + 1, Append(paragraph_lines, Strip(lines[j])))
    ELSE [lines |-> paragraph_lines, j |-> j]


(***************************************************************************)
(* The texts handed to parse: every text of up to MaxParseLen characters   *)
(* over ParseAlphabet, every document of up to MaxLines sample lines, and  *)
(* the example documents.                                                  *)
(***************************************************************************)
ParseAlphabet == {"a", " ", "\n", ">", "*", "bt", "-", "1", "#", "~", "_", "."}

ShortTexts == UNION {[1..n -> ParseAlphabet] : n \in 0..MaxParseLen}

SampleLines ==
    {<<"#", " ", "a">>,
     <<"-", " ", "a">>,
     <<"1", ".", " ", "a">>,
     <<"5", ".", " ", "a">>,
     <<">", " ", "a">>,
     <<" ", " ", ">", " ", "a">>,
     <<" ", " ", "b">>,
     <<>>,
     <<"a", " ", "b">>,
     <<"-", "-", "-">>,
     <<"*", "*", "a", "*", "*">>,
     <<"*", "*", "a">>,
     <<"bt", "a", "bt">>,
     <<">", ">", " ", "a">>,
     <<"a", " ", "*", "*", "b", "*", "*">>,
     <<"1", "2", " ", "a">>,
     <<"-", " ", "-", " ", "-">>}

SampleTexts == {JoinLines(ls) : ls \in SeqsUpTo(SampleLines, MaxLines)}

\* the documents the specification works through
TitleHello ==
    <<"#", " ", "T", "i", "t", "l", "e", "\n", "\n",
      "H", "e", "l", "l", "o", " ", "*", "*", "w", "o", "r", "l", "d", "*", "*">>

\* lines that mix the inline styles
InlineExamples ==
    {<<"bt", "*", "*", "b", "*", "*", "bt">>,
     <<"~", "~", "a", "~", "~", " ", "*", "b", "*">>,
     <<"*", "a", "*", " ", "bt", "b", "bt">>,
     <<"_", "_", "a", "_", "_", " ", "_", "b", "_">>,
     <<"bt", "a", "bt", " ", "b", " ", "bt", "c", "bt">>}

\* runs of lines, as in test_linebreak.py
RunExamples ==
    {<<"a", "\n", "b", " ", "*", "c", "*", "\n", "d">>,
     <<"#", " ", "a", "\n", "\n", "b", "\n", "c", "\n", "d", "\n", "\n", "e", "\n", "f", "\n">>}

ExampleTexts == {TitleHello} \cup InlineExamples \cup RunExamples

Texts == ShortTexts \cup SampleTexts \cup ExampleTexts

(***************************************************************************)
(* processor.py: MarkdownProcessor.parse as a machine.  A frame is one     *)
(* running call of parse: its lines, its line index i, the children of its *)
(* root so far and, for a call made by _parse_blockquote, the index that    *)
(* _parse_blockquote returns to its caller.                                *)
(***************************************************************************)
Top == Last(parser.frames)
Running == parser.status = "running"

\* the loop condition `i < len(lines)`, while the root has room for a child
Iterating ==
    /\ Running
    /\ Top.i <= Len(Top.lines)
    /\ Len(Top.children) < MaxParsed

\* line = lines[i].strip()
Line == Strip(Top.lines[Top.i])

\* the branch of the main loop that takes the line
line_branch(line) ==
    IF line = <<>> THEN "blank"
    ELSE IF heading_match(line).ok THEN "heading"
    ELSE IF hr_match(line) THEN "hr"
    ELSE IF unordered_list_match(line).ok THEN "unordered"
    ELSE IF ordered_list_match(line).ok THEN "ordered"
    ELSE IF blockquote_match(line).ok THEN "blockquote"
    ELSE "paragraph"

\* the end of an iteration: root.add(node) for each of added, then i = new_i
Advance(added, new_i) ==
    parser' = [parser EXCEPT
                  !.frames[Len(parser.frames)] =
                      [@ EXCEPT !.children = @ \o added, !.i = new_i],
                  !.iter = [from |-> Top.i, to |-> new_i]]

\* processor.parse(text)
parse_call ==
    /\ parser.status = "idle"
    /\ \E text \in Texts :
           parser' = [parser EXCEPT
                         !.status = "running",
                         !.text = text,
                         !.frames = <<[lines |-> SplitLines(text), i |-> 1,
                                       children |-> <<>>, ret |-> 0]>>]
    /\ UNCHANGED <<styleVars, walkVars, treeVars>>

parse_blank ==
    /\ Iterating
    /\ line_branch(Line) = "blank"
    /\ Advance(<<>>, Top.i + 1)
    /\ UNCHANGED <<styleVars, walkVars, treeVars>>

parse_heading ==
    /\ Iterating
    /\ line_branch(Line) = "heading"
    /\ Advance(<<Heading(Strip(heading_match(Line).text), heading_match(Line).level)>>,
               Top.i + 1)
    /\ UNCHANGED <<styleVars, walkVars, treeVars>>

parse_hr ==
    /\ Iterating
    /\ line_branch(Line) = "hr"
    /\ Advance(<<HorizontalRule>>, Top.i + 1)
    /\ UNCHANGED <<styleVars, walkVars, treeVars>>

parse_unordered_list ==
    /\ Iterating
    /\ line_branch(Line) = "unordered"
    /\ \E r \in {parse_list(Top.lines, Top.i, FALSE)} : Advance(<<r.node>>, r.new_i)
    /\ UNCHANGED <<styleVars, walkVars, treeVars>>

parse_ordered_list ==
    /\ Iterating
    /\ line_branch(Line) = "ordered"
    /\ \E r \in {parse_list(Top.lines, Top.i, TRUE)} : Advance(<<r.node>>, r.new_i)
    /\ UNCHANGED <<styleVars, walkVars, treeVars>>

\* _parse_blockquote up to its call self.parse(blockquote_content)
parse_blockquote_call ==
    /\ Iterating
    /\ line_branch(Line) = "blockquote"
    /\ \E c \in {blockquote_collect(Top.lines, Top.i, <<>>)} :
           parser' = [parser EXCEPT
                         !.frames = Append(@, [lines |-> SplitLines(JoinLines(c.lines)),
                                               i |-> 1, children |-> <<>>,
                                               ret |-> c.new_i]),
                         !.rec = [outer |-> Len(JoinLines(Top.lines)),
                                  inner |-> Len(JoinLines(c.lines))]]
    /\ UNCHANGED <<styleVars, walkVars, treeVars>>

\* the paragraph branch; an exception of _create_paragraph leaves every frame
parse_paragraph ==
    /\ Iterating
    /\ line_branch(Line) = "paragraph"
    /\ \E c \in {paragraph_collect(Top.lines, Top.i + 1, <<Line>>)} :
           \E r \in {create_paragraph(c.lines)} :
               IF r.raised
               THEN parser' = [parser EXCEPT !.status = "raised", !.frames = <<>>]
               ELSE Advance(<<r.node>>, c.j)
    /\ UNCHANGED <<styleVars, walkVars, treeVars>>

\* `return root`: to the caller of parse, or into _parse_blockquote, which
\* wraps the document in a Blockquote and hands it to the calling loop
parse_return ==
    /\ Running
    /\ Top.i > Len(Top.lines)
    /\ IF Len(parser.frames) = 1
       THEN parser' = [parser EXCEPT !.status = "done", !.frames = <<>>,
                                     !.result = DocumentNode(Top.children)]
       ELSE parser' = [parser EXCEPT
                          !.frames = [Front(parser.frames) EXCEPT
                              ![Len(parser.frames) - 1] =
                                  [@ EXCEPT
                                      !.children = Append(@, Blockquote(<<DocumentNode(Top.children)>>)),
                                      !.i = Top.ret]],
                          !.iter = [from |-> parser.frames[Len(parser.frames) - 1].i,
                                    to |-> Top.ret]]
    /\ UNCHANGED <<styleVars, walkVars, treeVars>>

InitParse ==
    /\ parser = NoParse
    /\ IdleTree
    /\ style_stack = Renderer_init_stack
    /\ IdleStyle
    /\ IdleWalk

NextParse ==
    \/ parse_call
    \/ parse_blank
    \/ parse_heading
    \/ parse_hr
    \/ parse_unordered_list
    \/ parse_ordered_list
    \/ parse_blockquote_call
    \/ parse_paragraph
    \/ parse_return

SpecParse == InitParse /\ [][NextParse]_vars

(***************************************************************************)
(* C1: when a push_style scope ends, normally or by an error, with or      *)
(* without nested scopes in its body, the style stack is the stack that    *)
(* existed before the push and get_current_style() is the pre-push style.  *)
(***************************************************************************)
C1_ScopeRestoresStack ==
    ended.valid =>
        /\ ended.after = ended.before
        /\ ended.cur_after = ended.cur

\* a scope whose body nested another scope and raised has ended
C1_Witness ==
    /\ ended.valid
    /\ ended.raised
    /\ ended.nested
    /\ ended.before # <<>>

(***************************************************************************)
(* C4: in the layout of a Paragraph every LineBreak child closes its line  *)
(* right after it is placed: a LineBreak is the last item of its line, so  *)
(* the content that follows it starts on a later line.                     *)
(***************************************************************************)
C4_LineBreakClosesLine ==
    lay.valid =>
        \A k \in 1..Len(lay.lines) :
            \A j \in 1..Len(lay.lines[k].items) :
                lay.lines[k].items[j].node.type = "LineBreak"
                    => j = Len(lay.lines[k].items)

(***************************************************************************)
(* C5: greedy wrap: for every line of a layout but the first, the line's   *)
(* first breakable unit (word with its trailing space, CJK character or    *)
(* whole inline node) would not have fitted at the end of the line before. *)
(***************************************************************************)
\* the first word token of a Latin text: up to and including its first space
RECURSIVE FirstWord(_)
FirstWord(t) ==
    IF t = <<>> THEN <<>>
    ELSE IF Head(t) = " " THEN <<" ">>
    ELSE <<Head(t)>> \o FirstWord(Tail(t))

FirstUnitWidth(item, st, remaining) ==
    IF item.node.type = "TextSpan"
    THEN font_getlength(IF HasCJK(item.node.text) THEN <<Head(item.node.text)>>
                        ELSE FirstWord(item.node.text), CurrentFontOf(st))
    ELSE measure_width(item.node, st, remaining).v

C5_GreedyWrap ==
    lay.valid =>
        \A k \in 2..Len(lay.lines) :
            lay.lines[k - 1].width
              + FirstUnitWidth(lay.lines[k].items[1], style_stack,
                               avail - lay.lines[k - 1].width) > avail

(***************************************************************************)
(* C6: Paragraph.render paints the lines the stand-alone layout_paragraph  *)
(* computes at that width (same count, same heights) and returns the       *)
(* height Paragraph.measure_height returns at that width.                  *)
(***************************************************************************)
C6_RenderAgreesWithMeasure ==
    /\ (rendered.valid /\ lay.valid) =>
          /\ Len(rendered.painted) = Len(lay.lines)
          /\ \A k \in 1..Len(lay.lines) :
                rendered.painted[k].height = lay.lines[k].height
    /\ (rendered.valid /\ measured # <<>>) => rendered.h = measured[1].v

\* a paragraph of several lines of different heights was laid out, rendered
\* and measured
C6_Witness ==
    /\ rendered.valid /\ lay.valid /\ measured # <<>>
    /\ Len(lay.lines) >= 2
    /\ lay.lines[1].height # lay.lines[2].height
    /\ rendered.h > 0

(***************************************************************************)
(* C7: measure_height is deterministic: two consecutive calls on the same  *)
(* tree with the same width return the same value, and every call leaves   *)
(* the style stack as it found it.                                         *)
(***************************************************************************)
C7_MeasureHeightDeterministic ==
    /\ \A k \in 1..Len(measured) : measured[k].after = measured[k].before
    /\ Len(measured) = 2 => measured[1].v = measured[2].v

\* a document with a blockquote and a list, both holding styled text, has
\* been measured twice
C7_Witness ==
    /\ Len(measured) = 2
    /\ root.type = "DocumentNode"
    /\ \E k \in 1..Len(root.children) : root.children[k].type = "Blockquote"
    /\ \E k \in 1..Len(root.children) : root.children[k].type = "List"
    /\ measured[1].v > 0

(***************************************************************************)
(* C8: list numbering: after List construction, List.add, ListItem +       *)
(* ListItem, List + ListItem, List + List and parsed list lines, the       *)
(* ListItem children of every ordered List carry the indices 1..N in child *)
(* order, those of every unordered List carry none, and ListItem +         *)
(* ListItem yields a List that is ordered iff its left operand had an      *)
(* index.                                                                  *)
(***************************************************************************)
C8_ListNumbering ==
    /\ \A l \in Ids :
          nodes[l].kind = "List" =>
              \A k \in 1..Len(nodes[l].children) :
                  nodes[nodes[l].children[k]].kind = "ListItem" =>
                      nodes[nodes[l].children[k]].index =
                          IF nodes[l].ordered THEN k ELSE NoIndex
    /\ last_op.op = "ListItem_add" =>
          /\ nodes[last_op.target].kind = "List"
          /\ nodes[last_op.target].ordered = last_op.flag

Occurrences(c) ==
    {<<p, k>> \in Ids \X (1..MaxChildren) :
        k <= Len(nodes[p].children) /\ nodes[p].children[k] = c}

C10_ExclusiveOwnership ==
    \A c \in Ids :
        /\ Cardinality(Occurrences(c)) <= 1
        /\ \A o \in Occurrences(c) : nodes[c].parent = o[1]


(***************************************************************************)
(* C2: MarkdownProcessor.parse never raises, whatever the text: a line     *)
(* matching no block pattern becomes paragraph text, and an unterminated    *)
(* inline marker (an opening ** with no closing **, a backtick pair with   *)
(* nothing between) comes out as the literal TextSpan text of a paragraph. *)
(***************************************************************************)
UnterminatedTexts == {<<"*", "*", "a">>, <<"bt", "bt">>, <<"*", "a">>, <<"bt", "a">>}

C2_ParseNeverRaises ==
    /\ parser.status # "raised"
    /\ (parser.status = "done" /\ parser.text \in UnterminatedTexts)
           => parser.result = DocumentNode(<<Paragraph(<<TextSpan(parser.text)>>)>>)

(***************************************************************************)
(* C3: parse terminates: every iteration of the main line loop, also one   *)
(* that enters _parse_list or _parse_blockquote on a line with leading     *)
(* whitespace, leaves the line index strictly greater than it found it,    *)
(* and the recursive parse of a blockquote gets a strictly shorter text.   *)
(***************************************************************************)
C3_LineIndexIncreases ==
    /\ parser.iter.to > parser.iter.from
    /\ parser.rec.inner < parser.rec.outer

(***************************************************************************)
(* C11: after any sequence of constructions and add_child / add / +, the   *)
(* parent-child relation is a forest: no node is its own descendant, so a  *)
(* depth-first measure or render walk visits finitely many nodes.          *)
(***************************************************************************)
ChildrenOf(S) == UNION {{nodes[p].children[k] : k \in 1..Len(nodes[p].children)} : p \in S}

\* S and everything up to k child links below it
RECURSIVE Below(_, _)
Below(S, k) == IF k = 0 THEN S ELSE Below(S \cup ChildrenOf(S), k - 1)

Descendants(n) == Below(ChildrenOf({n}), Len(nodes))

C11_Acyclic == \A n \in Ids : n \notin Descendants(n)

(***************************************************************************)
(* C12: parsing '# Title', a blank line, 'Hello **world**' gives a         *)
(* Document with exactly two children in order: a Heading of level 1 with  *)
(* the text 'Title', and a Paragraph whose children are exactly TextSpan   *)
(* 'Hello ' and a Bold holding 'world'; the Bold's style overrides are     *)
(* exactly {font_weight: bold}.                                            *)
(***************************************************************************)
C12_TitleHello ==
    parser.text = TitleHello =>
        /\ parser.status # "raised"
        /\ parser.status = "done" =>
               /\ parser.result =
                      DocumentNode(<<
                          Heading(<<"T", "i", "t", "l", "e">>, 1),
                          Paragraph(<<TextSpan(<<"H", "e", "l", "l", "o", " ">>),
                                      Bold(TextSpan(<<"w", "o", "r", "l", "d">>))>>) >>)
               /\ get_style_overrides(parser.result.children[2].children[2])
                      = [font_weight |-> "bold"]

C12_Witness == parser.status = "done" /\ parser.text = TitleHello

(***************************************************************************)
(* C13: every line made only of three or more repetitions of one of the    *)
(* characters '-', '*', '_', optionally separated by spaces, becomes a     *)
(* HorizontalRule block wherever it stands, also directly after a list     *)
(* item line - never a list item or paragraph text; '---' alone parses to  *)
(* a Document whose only child is one HorizontalRule.                      *)
(***************************************************************************)
RuleLine(line) ==
    /\ line # <<>>
    /\ line[1] \in {"-", "*", "_"}
    /\ \A k \in 1..Len(line) : line[k] \in {line[1], " "}
    /\ Cardinality({k \in 1..Len(line) : line[k] = line[1]}) >= 3

RuleLines(text) ==
    {k \in 1..Len(SplitLines(text)) : RuleLine(SplitLines(text)[k])}

RuleBlocks(doc) ==
    {k \in 1..Len(doc.children) : doc.children[k].type = "HorizontalRule"}

C13_HorizontalRules ==
    parser.status = "done" =>
        /\ Cardinality(RuleBlocks(parser.result)) >= Cardinality(RuleLines(parser.text))
        /\ parser.text = <<"-", "-", "-">>
               => parser.result = DocumentNode(<<HorizontalRule>>)

(***************************************************************************)
(* C14: for every inline text, _parse_inline_styles picks the first family *)
(* in the order code > strikethrough > bold > italic that has a match;     *)
(* every match of that family becomes a styled node of that family holding *)
(* its content as literal text: bold syntax inside backticks is a Code     *)
(* holding the asterisks and the text between them as characters;          *)
(* lower-precedence syntax is parsed only in the unmatched text around the *)
(* matches; the output keeps the source order.                             *)
(***************************************************************************)
\* the number of matches pattern.finditer finds from position s on
RECURSIVE CountMatches(_, _, _)
CountMatches(t, s, pattern) ==
    IF ~NextMatch(t, s, pattern).ok THEN 0
    ELSE 1 + CountMatches(t, NextMatch(t, s, pattern).end, pattern)

\* the literal characters of the inline nodes, in output order
RECURSIVE Literal(_)
Literal(ns) ==
    IF ns = <<>> THEN <<>>
    ELSE (IF Head(ns).type = "TextSpan" THEN Head(ns).text ELSE Literal(Head(ns).children))
         \o Literal(Tail(ns))

\* a occurs in t from position k on, in order
RECURSIVE IsSubsequence(_, _, _)
IsSubsequence(a, t, k) ==
    IF a = <<>> THEN TRUE
    ELSE IF k > Len(t) THEN FALSE
    ELSE IF t[k] = Head(a) THEN IsSubsequence(Tail(a), t, k + 1)
    ELSE IsSubsequence(a, t, k + 1)

\* texts of one line that parse takes as a paragraph of that very line
InlineText(t) ==
    /\ t # <<>>
    /\ \A k \in 1..Len(t) : t[k] # "\n"
    /\ Strip(t) = t
    /\ line_branch(t) = "paragraph"

NodesOfFamily(ns, p) ==
    {k \in 1..Len(ns) : ns[k].type = style_patterns[p].node_class}

PrecedenceHolds(t, ns) ==
    /\ \A p \in 1..Len(style_patterns) :
           (/\ CountMatches(t, 1, style_patterns[p].pattern) > 0
            /\ \A q \in 1..(p - 1) : CountMatches(t, 1, style_patterns[q].pattern) = 0)
           => /\ Cardinality(NodesOfFamily(ns, p))
                     = CountMatches(t, 1, style_patterns[p].pattern)
              /\ \A q \in 1..(p - 1) : NodesOfFamily(ns, q) = {}
    /\ \A k \in 1..Len(ns) :
           ns[k].type \in StyledTypes
               => Len(ns[k].children) = 1 /\ ns[k].children[1].type = "TextSpan"
    /\ IsSubsequence(Literal(ns), t, 1)
    /\ t = <<"bt", "*", "*", "b", "*", "*", "bt">>
           => ns = <<Code(TextSpan(<<"*", "*", "b", "*", "*">>))>>

C14_InlinePrecedence ==
    InlineText(parser.text) =>
        /\ parser.status # "raised"
        /\ parser.status = "done"
               => PrecedenceHolds(parser.text, parser.result.children[1].children)

(***************************************************************************)
(* C15: a maximal run of N consecutive non-blank lines, none of which      *)
(* starts a block, parses to exactly one Paragraph holding the inline      *)
(* nodes of the N lines in order, with exactly N-1 LineBreak nodes, one    *)
(* after each line except the last.                                        *)
(***************************************************************************)
PlainLine(line) == Strip(line) # <<>> /\ ~is_block_start(Strip(line))

\* the text is one run of plain lines
OneRun(text) == \A k \in 1..Len(SplitLines(text)) : PlainLine(SplitLines(text)[k])

\* the inline nodes of the lines from line k on, a LineBreak between two lines
RECURSIVE MergedFrom(_, _)
MergedFrom(lines, k) ==
    parse_inline_styles(Strip(lines[k])).nodes
        \o (IF k < Len(lines) THEN <<LineBreak>> \o MergedFrom(lines, k + 1) ELSE <<>>)

LineBreaksOf(ns) == {k \in 1..Len(ns) : ns[k].type = "LineBreak"}

C15_ParagraphMerging ==
    OneRun(parser.text) =>
        /\ parser.status # "raised"
        /\ parser.status = "done" =>
               /\ parser.result =
                      DocumentNode(<<Paragraph(MergedFrom(SplitLines(parser.text), 1))>>)
               /\ Cardinality(LineBreaksOf(parser.result.children[1].children))
                      = Len(SplitLines(parser.text)) - 1

(***************************************************************************)
(* C16: a line starts an ordered list item exactly when it is an optional  *)
(* indent, one or more digits, a period, whitespace and content; a line    *)
(* that begins with digits not followed by a period ('2023 was long') is   *)
(* paragraph text, not a list item.                                        *)
(***************************************************************************)
\* optional indent, digits, a period, whitespace
OrderedItemLine(line) ==
    LET start == SkipSpace(line, 1)
        stop == SkipDigits(line, start)
    IN /\ stop > start
       /\ stop < Len(line)
       /\ line[stop] = "."
       /\ IsSpace(line[stop + 1])

\* the texts of one line that is no heading, rule, unordered item or quote
OneLine(t) ==
    /\ t # <<>>
    /\ \A k \in 1..Len(t) : t[k] # "\n"
    /\ line_branch(Strip(t)) \in {"ordered", "paragraph"}

C16_OrderedListRecognition ==
    (parser.status = "done" /\ OneLine(parser.text)) =>
        /\ Len(parser.result.children) = 1
        /\ (parser.result.children[1].type = "List") <=> OrderedItemLine(Strip(parser.text))

(***************************************************************************)
(* C17: a maximal run of consecutive lines that are each a '>' quote line  *)
(* or blank, starting at a quote line, parses to exactly one Blockquote    *)
(* whose content is the Document got by parsing those lines with the       *)
(* leading '>' marker removed; parsing resumes at the first line after the *)
(* run, and no line of the run is parsed twice or dropped.                 *)
(***************************************************************************)
\* a quote line, as the main loop recognises it
QuoteLine(line) == line_branch(Strip(line)) = "blockquote"

\* the text is one run: a quote line, then quote lines and blank lines
QuoteRun(text) ==
    /\ QuoteLine(SplitLines(text)[1])
    /\ \A k \in 1..Len(SplitLines(text)) :
           QuoteLine(SplitLines(text)[k]) \/ Strip(SplitLines(text)[k]) = <<>>

\* a line of the run without its marker
Unquote(line) ==
    IF Strip(line) = <<>> THEN <<>>
    ELSE Slice(line, SkipSpace(line, SkipSpace(line, 1) + 1), Len(line))

Unquoted(lines) == [k \in 1..Len(lines) |-> Unquote(lines[k])]

\* the main loop adds one Blockquote for the run; the recursive call made for
\* it is given every line of the run, once and in order, without the marker;
\* the result is that one Blockquote and nothing else
C17_BlockquoteGrouping ==
    QuoteRun(parser.text) =>
        /\ parser.frames # <<>> =>
               /\ Len(parser.frames[1].children) <= 1
               /\ Len(parser.frames) >= 2
                      => parser.frames[2].lines = Unquoted(SplitLines(parser.text))
        /\ parser.status = "done" =>
               /\ Len(parser.result.children) = 1
               /\ parser.result.children[1].type = "Blockquote"

(***************************************************************************)
(* C18: + on a node (MDNode, ListItem or List) with a right operand that   *)
(* is neither a node nor a string raises TypeError, and the failed         *)
(* operation changes no node's parent or children.                         *)
(***************************************************************************)
C18_InvalidConcat ==
    (last_op.op = "add" /\ last_op.operand = "other")
        => last_op.raised /\ last_op.flag

C18_Witness ==
    /\ last_op.op = "add"
    /\ last_op.operand = "other"
    /\ last_op.raised
    /\ nodes[last_op.target].kind = "List"
    /\ nodes[last_op.target].children # <<>>

(***************************************************************************)
(* C19: in every layout result a single breakable unit (a word, a CJK      *)
(* character or an atomic inline node) that is wider than the full         *)
(* available width is the only item of its line - nothing before or after  *)
(* it on that line - and it is not split into smaller fragments.           *)
(***************************************************************************)
\* the item is one unit: one word with its trailing space, one CJK character
\* or a node that is no TextSpan
SingleUnit(item) ==
    IF item.node.type # "TextSpan" THEN TRUE
    ELSE IF HasCJK(item.node.text) THEN Len(item.node.text) = 1
    ELSE \A k \in 1..(Len(item.node.text) - 1) : item.node.text[k] # " "

\* the lines that hold one oversized unit and nothing else
OversizedLines ==
    {k \in 1..Len(lay.lines) :
        /\ Len(lay.lines[k].items) = 1
        /\ lay.lines[k].items[1].width > avail
        /\ SingleUnit(lay.lines[k].items[1])}

\* the oversized units of a child of the paragraph: its words, its CJK
\* characters, or the child itself
OversizedUnits(c) ==
    IF root.children[c].type # "TextSpan"
    THEN IF measure_width(root.children[c], style_stack, avail).v > avail
         THEN {<<c, 1>>} ELSE {}
    ELSE IF HasCJK(root.children[c].text)
    THEN {<<c, k>> : k \in {j \in 1..Len(root.children[c].text) :
              font_getlength(<<root.children[c].text[j]>>, CurrentFontOf(style_stack))
                  > avail}}
    ELSE {<<c, k>> : k \in {j \in 1..Len(Split(root.children[c].text)) :
              font_getlength(Split(root.children[c].text)[j], CurrentFontOf(style_stack))
                  > avail}}

C19_OversizedUnitAlone ==
    lay.valid =>
        /\ \A k \in 1..Len(lay.lines) :
               \A j \in 1..Len(lay.lines[k].items) :
                   lay.lines[k].items[j].width > avail => k \in OversizedLines
        /\ Cardinality(OversizedLines)
               >= Cardinality(UNION {OversizedUnits(c) : c \in 1..Len(root.children)})

C19_Witness ==
    /\ lay.valid
    /\ Len(lay.lines) >= 3
    /\ \E k \in OversizedLines :
           /\ 1 < k /\ k < Len(lay.lines)
           /\ lay.lines[k].items[1].node.type = "TextSpan"
           /\ Len(lay.lines[k].items[1].node.text) >= 2

(***************************************************************************)
(* C20: a TextSpan containing a CJK character is cut between characters:   *)
(* laid out as the only child of a paragraph, every line holds one part    *)
(* of it, the parts joined in order give the text back, and a part wider   *)
(* than the width is a single character.  For a text of n CJK characters   *)
(* only, at a width smaller than the width of any two of its characters,   *)
(* the layout has exactly n lines, line k holding character k alone.       *)
(***************************************************************************)
\* the paragraph holds one TextSpan, which contains a CJK character
OneCJKSpan ==
    /\ root.type = "Paragraph"
    /\ Len(root.children) = 1
    /\ root.children[1].type = "TextSpan"
    /\ HasCJK(root.children[1].text)

CJKOnly(t) == \A k \in 1..Len(t) : t[k] \in CJKChars

\* the width is smaller than the width of any two characters of t
NarrowerThanAnyTwo(t) ==
    \A i, j \in 1..Len(t) :
        i < j => avail < TextSpan_measure_width(TextSpan(<<t[i], t[j]>>),
                                                style_stack, avail).v

RECURSIVE LineTexts(_, _)
\* the texts of the lines from line k on, joined
LineTexts(lines, k) ==
    IF k > Len(lines) THEN <<>>
    ELSE lines[k].items[1].node.text \o LineTexts(lines, k + 1)

C20_CJKPerCharacter ==
    (lay.valid /\ OneCJKSpan) =>
        LET text == root.children[1].text IN
        /\ \A k \in 1..Len(lay.lines) :
              /\ Len(lay.lines[k].items) = 1
              /\ lay.lines[k].items[1].node.type = "TextSpan"
              /\ \/ lay.lines[k].items[1].width <= avail
                 \/ Len(lay.lines[k].items[1].node.text) = 1
        /\ LineTexts(lay.lines, 1) = text
        /\ (CJKOnly(text) /\ NarrowerThanAnyTwo(text)) =>
              /\ Len(lay.lines) = Len(text)
              /\ \A k \in 1..Len(text) :
                    lay.lines[k].items[1].node = TextSpan(<<text[k]>>)

C20_Witness ==
    /\ lay.valid
    /\ OneCJKSpan
    /\ CJKOnly(root.children[1].text)
    /\ NarrowerThanAnyTwo(root.children[1].text)
    /\ Len(root.children[1].text) = MaxCJKLen
    /\ Len(lay.lines) = MaxCJKLen
    /\ lay.lines[2].items[1].node.text = <<root.children[1].text[2]>>

(***************************************************************************)
(* C21: right after a Renderer is constructed, and when a render call      *)
(* starts painting, the style stack holds exactly one entry, equal to the  *)
(* resolved global style.                                                  *)
(***************************************************************************)
Seeded(stack) == Len(stack) = 1 /\ stack[1] = config_get_style_global

C21_StackSeeded ==
    /\ ~rendered.valid => Seeded(style_stack)
    /\ rendered.valid => Seeded(rendered.image.paint_start)

(***************************************************************************)
(* C22: inside a push_style(overrides) scope the current style is the      *)
(* style that was current just before the push, with every key of          *)
(* overrides set to the override value and every other key inherited; so   *)
(* a text inside nested styled nodes is painted with the overrides of all  *)
(* enclosing styled nodes, the innermost winning on a key collision.       *)
(***************************************************************************)
\* inside is cur with the keys of ov replaced
Cascaded(inside, cur, ov) ==
    /\ DOMAIN inside = (DOMAIN cur) \cup (DOMAIN ov)
    /\ \A key \in DOMAIN ov : inside[key] = ov[key]
    /\ \A key \in (DOMAIN cur) \ (DOMAIN ov) : inside[key] = cur[key]

\* the style that is current inside the open scope k
StyleInside(k) ==
    IF k = Len(scopes) THEN get_current_style ELSE scopes[k + 1].cur

\* the draw call of the text inside outer(inner(TextSpan)), rendered now
NestedTextDraw(outer, inner) ==
    LET r == render(StyledText(outer, <<StyledText(inner, <<TextSpan(<<"a">>)>>)>>),
                    style_stack, 0, 0, MaxWidth)
    IN CHOOSE d \in {r.draws[k] : k \in 1..Len(r.draws)} : d.op = "text"

C22_CascadingMerge ==
    /\ \A k \in 1..Len(scopes) :
          Cascaded(StyleInside(k), scopes[k].cur, scopes[k].ov)
    /\ \A outer, inner \in StyledTypes :
          LET ov1 == get_style_overrides(StyledText(outer, <<>>))
              ov2 == get_style_overrides(StyledText(inner, <<>>))
              expected == [k \in DOMAIN get_current_style \cup DOMAIN ov1
                                   \cup DOMAIN ov2 |->
                              IF k \in DOMAIN ov2 THEN ov2[k]
                              ELSE IF k \in DOMAIN ov1 THEN ov1[k]
                              ELSE get_current_style[k]]
              d == NestedTextDraw(outer, inner)
          IN /\ d.font = CurrentFontOf(<<expected>>)
             /\ d.fill = DictGet(expected, "color", "#000000")

\* Bold inside Italic inside a Blockquote's scope: all three overrides hold
C22_Witness ==
    /\ Len(scopes) = 3
    /\ scopes[1].ov = Blockquote_style_override
    /\ scopes[2].ov = Italic_get_style_overrides
    /\ scopes[3].ov = Bold_get_style_overrides
    /\ get_current_style.color = "#555555"
    /\ get_current_style.font_style = "italic"
    /\ get_current_style.font_weight = "bold"
    /\ NestedTextDraw("Code", "Bold").font.family = "monospace"
    /\ NestedTextDraw("Code", "Bold").fill = "#555555"

(***************************************************************************)
(* C23: for every node of every tree, the style stack after the node's     *)
(* measure_width, measure_height or render is the stack before the call;   *)
(* so what follows a StyledText or a Blockquote is painted exactly as it   *)
(* is painted on its own under the style that was current before.          *)
(***************************************************************************)
RECURSIVE Subtrees(_)
\* n and every node below it
Subtrees(n) ==
    {n} \cup UNION {Subtrees(n.children[k]) : k \in 1..Len(n.children)}

\* the three walks leave the stack st as it is
LeavesStack(n, st) ==
    /\ measure_width(n, st, avail).st = st
    /\ measure_height(n, st, avail).st = st
    /\ render(n, st, 0, 0, avail).st = st

RECURSIVE DrawsAlone(_, _, _, _)
\* the draw calls of the children k.. of the root, each rendered on its own
\* under the stack st at the place the walk gave it
DrawsAlone(image, st, k, draws) ==
    IF k > Len(root.children) THEN draws
    ELSE DrawsAlone(image, st, k + 1,
             draws \o render(root.children[k], st, image.x, image.placed[k].y,
                             avail).draws)

C23_NoStyleLeak ==
    /\ \A n \in Subtrees(root) :
          /\ LeavesStack(n, style_stack)
          /\ LeavesStack(n, PushOnEnter(style_stack, Italic_get_style_overrides))
    /\ rendered.valid =>
          /\ rendered.after = rendered.before
          /\ rendered.image.paint_start = rendered.before
          /\ rendered.image.draws =
                DrawsAlone(rendered.image, rendered.before, 1, <<>>)

\* a document whose first block is a Blockquote holding styled text and
\* whose second block is a paragraph with text after a styled node was painted
C23_Witness ==
    /\ rendered.valid
    /\ Len(root.children) = 2
    /\ root.children[1].type = "Blockquote"
    /\ root.children[2] = ParagraphNested
    /\ \E k \in 1..Len(rendered.image.draws) :
          /\ rendered.image.draws[k].op = "text"
          /\ rendered.image.draws[k].fill = "#555555"
    /\ rendered.image.draws[Len(rendered.image.draws)].fill = "#000000"

(***************************************************************************)
(* C24: every child of a paragraph that is not a TextSpan appears as       *)
(* exactly one item on exactly one line, whole; if its width measured      *)
(* against the remaining width does not fit behind the items already on    *)
(* the line, it is the first item of its line, and its recorded width and  *)
(* the height it gives the line are measured against the full width.       *)
(***************************************************************************)
RECURSIVE FlatItems(_, _)
\* the items of the lines k.., in reading order, each with its line and place
FlatItems(lines, k) ==
    IF k > Len(lines) THEN <<>>
    ELSE [j \in 1..Len(lines[k].items) |->
             [node |-> lines[k].items[j].node, width |-> lines[k].items[j].width,
              line |-> k, pos |-> j]]
         \o FlatItems(lines, k + 1)

\* the items that are not fragments of a TextSpan child
NodeItems(items) == SelectSeq(items, LAMBDA it : it.node.type # "TextSpan")

\* the children that are not TextSpans
NodeChildren == SelectSeq(root.children, LAMBDA c : c.type # "TextSpan")

\* the width of the items before place pos on line k
WidthBefore(k, pos) ==
    LET Sum[j \in 0..Len(lay.lines[k].items)] ==
            IF j = 0 THEN 0 ELSE Sum[j - 1] + lay.lines[k].items[j].width
    IN Sum[pos - 1]

C24_AtomicInline ==
    lay.valid =>
        LET placed == NodeItems(FlatItems(lay.lines, 1)) IN
        /\ Len(placed) = Len(NodeChildren)
        /\ \A k \in 1..Len(placed) :
              LET it == placed[k]
                  before == WidthBefore(it.line, it.pos)
                  fits == before + measure_width(it.node, style_stack,
                                                 avail - before).v <= avail
              IN /\ it.node = NodeChildren[k]
                 /\ it.width = measure_width(it.node, style_stack,
                        IF it.pos = 1 THEN avail ELSE avail - before).v
                 /\ it.pos > 1 => fits
                 /\ (it.pos = 1 /\ it.line > 1) =>
                        lay.lines[it.line - 1].width
                            + measure_width(it.node, style_stack,
                                  avail - lay.lines[it.line - 1].width).v > avail
                 /\ lay.lines[it.line].height >=
                        measure_height(it.node, style_stack,
                            IF it.pos = 1 THEN avail ELSE avail - before).v

\* a styled node did not fit behind the text before it and opens line 2
C24_Witness ==
    /\ lay.valid
    /\ Len(lay.lines) = 2
    /\ lay.lines[1].items[1].node.type = "TextSpan"
    /\ lay.lines[2].items[1].node.type \in StyledTypes
    /\ lay.lines[2].items[1].node = root.children[2]
    /\ lay.lines[2].items[1].width <= avail

(***************************************************************************)
(* C25: DocumentNode.render paints its children in child order, each block *)
(* child at y = start y + the sum over the children before it of           *)
(* (margin_top + used height + margin_bottom) + its own margin_top, and    *)
(* returns as used height the sum of (margin_top + used height +           *)
(* margin_bottom) over all children.                                       *)
(***************************************************************************)
\* what render returns as used height for child k painted on its own
UsedAlone(image, k) ==
    render(root.children[k], rendered.before, image.x, image.placed[k].y, avail).h

\* margin_top + used height + margin_bottom, summed over the children 1..n
CursorAdvance(image, n) ==
    LET Sum[j \in 0..Len(root.children)] ==
            IF j = 0 THEN 0
            ELSE Sum[j - 1] + margin_top(root.children[j]) + image.placed[j].used
                            + margin_bottom(root.children[j])
    IN Sum[n]

C25_DocumentCursor ==
    rendered.valid =>
        LET image == rendered.image IN
        /\ Len(image.placed) = Len(root.children)
        /\ \A k \in 1..Len(root.children) :
              /\ image.placed[k].y
                    = image.y + CursorAdvance(image, k - 1) + margin_top(root.children[k])
              /\ image.placed[k].used = UsedAlone(image, k)
        /\ image.h = CursorAdvance(image, Len(root.children))
        /\ image.draws = DrawsAlone(image, rendered.before, 1, <<>>)

\* a heading and a list were painted one below the other
C25_Witness ==
    /\ rendered.valid
    /\ Len(root.children) = 2
    /\ root.children[1].type = "Heading"
    /\ root.children[2].type = "List"
    /\ rendered.image.placed[2].y > rendered.image.placed[1].y
    /\ rendered.image.h > rendered.image.placed[2].used

(***************************************************************************)
(* C26: every call of render walks the tree exactly twice: one measure     *)
(* walk, then one paint walk, whether or not a height is given.            *)
(***************************************************************************)
C26_TwoPassWalk ==
    rendered.valid => rendered.image.passes = <<"measure", "paint">>

(***************************************************************************)
(* C27: in every result of layout_paragraph a line of two or more items is *)
(* at most available_width wide, each line's width is the sum of its       *)
(* items' widths, each line's height is the maximum of its items' heights, *)
(* and the total height is the sum of the lines' heights.                  *)
(***************************************************************************)
\* the sum of f[1..n]
SumTo(f, n) ==
    LET Sum[j \in 0..n] == IF j = 0 THEN 0 ELSE Sum[j - 1] + f[j]
    IN Sum[n]

\* the maximum of f[1..n], 0 for n = 0
MaxTo(f, n) ==
    LET M[j \in 0..n] == IF j = 0 THEN 0 ELSE Max(M[j - 1], f[j])
    IN M[n]

ItemHeight(item) == measure_height(item.node, style_stack, avail).v

C27_LineWidthBound ==
    lay.valid =>
        /\ \A k \in 1..Len(lay.lines) :
              LET items == lay.lines[k].items IN
              /\ Len(items) >= 1
              /\ Len(items) >= 2 => lay.lines[k].width <= avail
              /\ lay.lines[k].width
                    = SumTo([j \in 1..Len(items) |-> items[j].width], Len(items))
              /\ lay.lines[k].height
                    = MaxTo([j \in 1..Len(items) |-> ItemHeight(items[j])],
                            Len(items))
        /\ lay.height
              = SumTo([k \in 1..Len(lay.lines) |-> lay.lines[k].height],
                      Len(lay.lines))

\* a layout with a line of one item wider than the width, and a line of
\* several items of different heights that fills the width exactly
C27_Witness ==
    /\ lay.valid
    /\ \E k \in 1..Len(lay.lines) :
          Len(lay.lines[k].items) = 1 /\ lay.lines[k].width > avail
    /\ \E k \in 1..Len(lay.lines) :
          /\ Len(lay.lines[k].items) >= 2
          /\ lay.lines[k].width = avail
          /\ \E i, j \in 1..Len(lay.lines[k].items) :
                ItemHeight(lay.lines[k].items[i]) < ItemHeight(lay.lines[k].items[j])

(***************************************************************************)
(* C28: reading the items of a layout line by line, left to right, gives   *)
(* every child that is not a TextSpan exactly once in child order, and the *)
(* fragments made of a TextSpan child, joined, are that child's text       *)
(* character for character.                                                *)
(***************************************************************************)
RECURSIVE Regroup(_, _, _)
\* the items read in order and regrouped by child: the fragments that lie
\* between two non-text items are joined into one text.  open holds the
\* text joined since the last non-text item.
Regroup(items, k, open) ==
    IF k > Len(items) THEN <<open>>
    ELSE IF items[k].node.type = "TextSpan"
    THEN Regroup(items, k + 1, open \o items[k].node.text)
    ELSE <<open, items[k].node>> \o Regroup(items, k + 1, <<>>)

RECURSIVE RegroupChildren(_, _, _)
\* the children regrouped the same way: the texts of neighbouring TextSpan
\* children are joined
RegroupChildren(children, k, open) ==
    IF k > Len(children) THEN <<open>>
    ELSE IF children[k].type = "TextSpan"
    THEN RegroupChildren(children, k + 1, open \o children[k].text)
    ELSE <<open, children[k]>> \o RegroupChildren(children, k + 1, <<>>)

C28_LayoutPreservesContent ==
    lay.valid =>
        /\ Regroup(FlatItems(lay.lines, 1), 1, <<>>)
              = RegroupChildren(root.children, 1, <<>>)
        /\ \A k \in 1..Len(lay.lines) :
              \A j \in 1..Len(lay.lines[k].items) :
                  lay.lines[k].items[j].node.type = "TextSpan"
                      => lay.lines[k].items[j].node.text # <<>>

\* a text with two spaces in a row, between two other children, was cut
\* into fragments on three lines or more
C28_Witness ==
    /\ lay.valid
    /\ Len(root.children) = 3
    /\ root.children[2].type = "TextSpan"
    /\ \E k \in 1..(Len(root.children[2].text) - 1) :
          root.children[2].text[k] = " " /\ root.children[2].text[k + 1] = " "
    /\ Len(lay.lines) >= 3
    /\ \E k \in 1..Len(lay.lines) :
          lay.lines[k].items[1].node.type = "TextSpan"
          /\ Head(lay.lines[k].items[1].node.text) = " "

(***************************************************************************)
(* C29: for every item of a layout, the width its render returns, by which *)
(* Paragraph.render advances the x cursor, is the width the layout         *)
(* recorded for it; so the cursor ends each line at the layout's line      *)
(* width.                                                                  *)
(***************************************************************************)
C29_PaintedMatchesLayout ==
    /\ lay.valid =>
          \A k \in 1..Len(lay.lines) :
              \A j \in 1..Len(lay.lines[k].items) :
                  LET item == lay.lines[k].items[j]
                  IN render(item.node, style_stack, 0, 0, item.width).w = item.width
    /\ (lay.valid /\ rendered.valid) =>
          \A k \in 1..Len(lay.lines) :
              rendered.painted[k].end_x - config_get_style_global.padding[4]
                  = lay.lines[k].width

(***************************************************************************)
(* C30: when render is called without a height, the used height the        *)
(* root's render returns is the root's measure_height at the same content  *)
(* width, so the painting ends at or above canvas height minus bottom      *)
(* padding; and the background a Blockquote paints is as high as the used  *)
(* height its render returns.                                              *)
(***************************************************************************)
\* the height of the background rectangle Blockquote.render draws first
BackgroundHeight(r) == r.draws[1].h

C30_CanvasHeightSuffices ==
    /\ (rendered.valid /\ ~rendered.height_arg.given) =>
          LET image == rendered.image
              padding == config_get_style_global.padding
          IN /\ image.h = measure_height(root, rendered.before, avail).v
             /\ image.y + image.h <= image.height - padding[3]
    /\ \A n \in Subtrees(root) :
          n.type = "Blockquote" =>
              LET r == render(n, style_stack, 0, 0, avail)
              IN BackgroundHeight(r) = r.h

====
